---- MODULE Spec2Model ----
(***************************************************************************)
(* A model of the retrieval core of the RAG chatbot backend:               *)
(*   - SimpleVectorStore (src/src/vector_store/simple_vector_store.py):    *)
(*     the three parallel sequences, add / search / save / load / clear,   *)
(*     and the three artifacts under storage_path;                         *)
(*   - DocumentProcessor.chunk_text (src/src/utils/document_processor.py); *)
(*   - RAGAgent (src/src/agent/graph.py): the retrieve, generate and       *)
(*     log_state nodes and run, with LLMManager.generate_response and its  *)
(*     retry decorator (src/src/utils/llm_manager.py);                     *)
(*   - save against a concurrent load, and add against a concurrent        *)
(*     search, one access to a shared field or file per step.              *)
(*                                                                         *)
(* Conventions.  A numpy matrix is a sequence of rows, each row a sequence *)
(* of integers; every vector of the model has an integer Euclidean norm,   *)
(* so that the cosine arithmetic is exact.  A Python exception that        *)
(* reaches the caller of a method is recorded in last.raised.  A Python    *)
(* str is a sequence of one-character strings; positions in it count from  *)
(* 0 as in the source.                                                     *)
(***************************************************************************)
EXTENDS Integers, Sequences, FiniteSets, TLC

VARIABLES
    vectors,      \* self.vectors   : the matrix, a sequence of rows
    documents,    \* self.documents : list of texts
    metadata,     \* self.metadata  : list of mappings
    disk,         \* the artifacts under storage_path: vec, docs, meta
    last,         \* the last call on the store and how it ended
    results,      \* the value returned by the last search
    faults,       \* the number of I/O errors the file system has raised
    chunk_size,   \* DocumentProcessor.chunk_size
    chunk_overlap, \* DocumentProcessor.chunk_overlap
    text,         \* chunk_text: the argument, then the cleaned text
    start,        \* chunk_text: the cursor
    chunks,       \* chunk_text: the chunks made so far
    chunk_index,  \* chunk_text: the index of the next chunk
    pc,           \* chunk_text: "idle", "call", "loop", "done" or "diverged"
    visited,      \* chunk_text: the cursor values the loop has started from
    settings,     \* src.models.config.settings, the fields the agent reads
    llm,          \* LLMManager: the models configured, the invocations made
    state,        \* RAGAgent: the AgentState the graph passes from node to node
    node,         \* RAGAgent.run: "idle", the node to run next, or "returned"
    run_result,   \* RAGAgent.run: the mapping returned
    agent_states, \* the rows _persist_state has committed
    stages,       \* RAGAgent.run: the nodes executed and what each one saw
    threads,      \* the store calls in progress in concurrent threads
    db,           \* the database: sessions, messages and documents tables
    route         \* the chat request being handled by api/routes.py

storeVars == <<vectors, documents, metadata, disk, last, results, faults>>
chunkVars == <<chunk_size, chunk_overlap, text, start, chunks, chunk_index, pc, visited>>
agentVars == <<settings, llm, state, node, run_result, agent_states, stages>>
apiVars == <<db, route>>
vars == <<vectors, documents, metadata, disk, last, results, faults,
          chunk_size, chunk_overlap, text, start, chunks, chunk_index, pc, visited,
          settings, llm, state, node, run_result, agent_states, stages, threads,
          db, route>>

(***************************************************************************)
(* Bounds of the model.                                                    *)
(***************************************************************************)
MaxDocs == 3        \* entries held by the store in MemSpec
MaxBatch == 2       \* items of one add call in MemSpec
MaxSearchDocs == 3  \* entries held by the store in SearchSpec
MaxDiskDocs == 2    \* entries held by the store in DiskSpec
MaxFaults == 2      \* I/O errors raised by the file system in DiskSpec
MaxTextLen == 5     \* characters of the text given to chunk_text
MaxChunkSize == 3   \* chunk_size of the DocumentProcessor
MaxWideLen == 7     \* characters of the text in WideChunkSpec
MaxWideSize == 6    \* chunk_size in WideChunkSpec
MaxWindow == 2      \* short_term_memory_window in AgentSpec
MaxFailing == 12    \* failing invocations of the generation provider in one run
MaxRaceDocs == 2    \* entries held by the store in AddSearchSpec
MaxRaceBatch == 1   \* items of the add call in AddSearchSpec
MaxUploads == 3     \* document rows committed in UploadSpec

\* The optional metadata argument of add: None, or a list of mappings.
None == [given |-> FALSE, items |-> <<>>]
Given(ms) == [given |-> TRUE, items |-> ms]

(***************************************************************************)
(* Sequences and matrices.                                                 *)
(***************************************************************************)
RECURSIVE SumSeq(_)
SumSeq(s) == IF s = <<>> THEN 0 ELSE Head(s) + SumSeq(Tail(s))

RECURSIVE Flatten(_)
Flatten(rows) == IF rows = <<>> THEN <<>> ELSE Head(rows) \o Flatten(Tail(rows))

Reverse(s) == [i \in 1..Len(s) |-> s[Len(s) + 1 - i]]

\* arr.shape[1]; 0 for an array without rows.  np.atleast_2d of an empty
\* list is one row of width 0, so the width of an empty argument is 0 too.
Width(arr) == IF arr = <<>> THEN 0 ELSE Len(arr[1])

\* arr.size
Size(arr) == Len(arr) * Width(arr)

IsPrefix(s, t) == Len(s) <= Len(t) /\ SubSeq(t, 1, Len(s)) = s

\* The part of t after its first n elements.
Suffix(t, n) == SubSeq(t, n + 1, Len(t))

Dot(u, v) == SumSeq([i \in 1..Len(u) |-> u[i] * v[i]])

\* np.linalg.norm of a vector whose norm is an integer.
Norm(v) == CHOOSE r \in 0..Dot(v, v) : r * r = Dot(v, v)

(***************************************************************************)
(* The store's dimension: the constructor's parameter (1536 by default),   *)
(* 2 in the model.  The constructor only uses it to shape the empty matrix.*)
(***************************************************************************)
Dimension == 2

\* The empty mapping {} and a mapping, as sets of <<key, value>> pairs.
EmptyMeta == {}

(***************************************************************************)
(* SimpleVectorStore.add                                                   *)
(***************************************************************************)
\* metadata = [{} for _ in documents]
DefaultMetadata(ds) == [j \in 1..Len(ds) |-> EmptyMeta]

\* A plausible slip: the lists are extended before the matrix is stacked,
\* so a failing np.vstack leaves documents and metadata already extended.
AddResultExtendFirst(vs, ds, ms) ==
    LET md == IF ms.given THEN ms.items ELSE DefaultMetadata(ds)
    IN  [raised    |-> Size(vectors) # 0 /\ Width(vs) # Width(vectors),
         vectors   |-> IF Size(vectors) = 0 THEN vs
                       ELSE IF Width(vs) # Width(vectors) THEN vectors
                       ELSE vectors \o vs,
         documents |-> documents \o ds,
         metadata  |-> metadata \o md]

\* A plausible slip: new items are put in front of the held ones.
AddResultPrepend(vs, ds, ms) ==
    LET md == IF ms.given THEN ms.items ELSE DefaultMetadata(ds)
    IN  IF Size(vectors) # 0 /\ Width(vs) # Width(vectors)
        THEN [raised |-> TRUE, vectors |-> vectors,
              documents |-> documents, metadata |-> metadata]
        ELSE [raised |-> FALSE, vectors |-> vs \o vectors,
              documents |-> ds \o documents, metadata |-> md \o metadata]

\* A plausible change: add rejects vectors whose length is not the
\* configured dimension, whatever the store holds.
AddResultChecked(vs, ds, ms) ==
    LET md == IF ms.given THEN ms.items ELSE DefaultMetadata(ds)
    IN  IF Width(vs) # Dimension
        THEN [raised |-> TRUE, vectors |-> vectors,
              documents |-> documents, metadata |-> metadata]
        ELSE [raised |-> FALSE,
              vectors |-> IF Size(vectors) = 0 THEN vs ELSE vectors \o vs,
              documents |-> documents \o ds, metadata |-> metadata \o md]

\* A plausible slip: the metadata list is extended when the argument is
\* normalised, before the matrix is stacked.
AddResultMetadataFirst(vs, ds, ms) ==
    LET md == IF ms.given THEN ms.items ELSE DefaultMetadata(ds)
    IN  IF Size(vectors) # 0 /\ Width(vs) # Width(vectors)
        THEN [raised |-> TRUE, vectors |-> vectors,
              documents |-> documents, metadata |-> metadata \o md]
        ELSE [raised |-> FALSE,
              vectors |-> IF Size(vectors) = 0 THEN vs ELSE vectors \o vs,
              documents |-> documents \o ds, metadata |-> metadata \o md]

\* What one call add(vs, ds, ms) does to the store: the three sequences
\* after the call and whether the call raised.  np.vstack raises
\* ValueError when the row widths differ, before the lists are extended.
AddResult(vs, ds, ms) ==
    LET md == IF ms.given THEN ms.items ELSE DefaultMetadata(ds)
    IN  IF Size(vectors) = 0
        THEN [raised |-> FALSE, vectors |-> vs,
              documents |-> documents \o ds, metadata |-> metadata \o md]
        ELSE IF Width(vs) # Width(vectors)
        THEN [raised |-> TRUE, vectors |-> vectors,
              documents |-> documents, metadata |-> metadata]
        ELSE [raised |-> FALSE, vectors |-> vectors \o vs,
              documents |-> documents \o ds, metadata |-> metadata \o md]

Add(vs, ds, ms) ==
    LET r == AddResult(vs, ds, ms)
    IN  /\ vectors' = r.vectors
        /\ documents' = r.documents
        /\ metadata' = r.metadata
        /\ last' = [op |-> "add", raised |-> r.raised,
                    arg |-> [vectors |-> vs, documents |-> ds, metadata |-> ms]]
        /\ results' = <<>>
        /\ UNCHANGED <<disk, faults>>
        /\ UNCHANGED <<chunkVars, agentVars, threads, apiVars>>

(***************************************************************************)
(* SimpleVectorStore.clear                                                 *)
(***************************************************************************)
\* A plausible slip: clear removes the persisted artifacts as well.
ClearDiskUnlink(d) == [vec |-> [kind |-> "absent"], docs |-> [kind |-> "absent"],
                       meta |-> [kind |-> "absent"]]

\* The files after clear, which opens none of them.
ClearDisk(d) == d

Clear ==
    /\ vectors' = <<>>
    /\ documents' = <<>>
    /\ metadata' = <<>>
    /\ disk' = ClearDisk(disk)
    /\ last' = [op |-> "clear", raised |-> FALSE, arg |-> <<>>]
    /\ results' = <<>>
    /\ UNCHANGED faults
    /\ UNCHANGED <<chunkVars, agentVars, threads, apiVars>>

(***************************************************************************)
(* SimpleVectorStore.search                                                *)
(*                                                                         *)
(* A cosine similarity dot / (norms + 1e-10) is kept as the pair           *)
(* <<dot, norms>> of integers.  With e = 1e-10, a/(m+e) < b/(n+e) iff      *)
(* a*n - b*m + e*(a-b) < 0; the first term is an integer and |e*(a-b)| < 1 *)
(* for the numbers of the model, so the sign is that of a*n - b*m, or of   *)
(* a - b when that is 0.                                                   *)
(***************************************************************************)
ScoreLt(x, y) ==
    LET c == x[1] * y[2] - y[1] * x[2]
    IN  c < 0 \/ (c = 0 /\ x[1] < y[1])

ScoreGeq(x, y) == ~ScoreLt(x, y)

\* A plausible slip: the dot product alone, without the norms.
CosineDotOnly(v, q) == <<Dot(v, q), 0>>

\* One entry of cosine_similarities: similarities / (norms + 1e-10).
Cosine(v, q) == <<Dot(v, q), Norm(v) * Norm(q)>>

CosineSimilarities(q) == [i \in 1..Len(vectors) |-> Cosine(vectors[i], q)]

Perms(n) == {p \in [1..n -> 1..n] : \A i, j \in 1..n : i # j => p[i] # p[j]}

\* np.argsort: the index orders that sort the scores ascending.  The order
\* among equal scores is not fixed by the sort, so every such order is one
\* the call may return.
ArgSorts(scores) ==
    {p \in Perms(Len(scores)) :
        \A i, j \in 1..Len(scores) : i < j => ~ScoreLt(scores[p[j]], scores[p[i]])}

\* A plausible slip: the first k of the ascending order instead of the last.
TopKFirst(order, k) ==
    IF k >= Len(order) THEN Reverse(order) ELSE Reverse(SubSeq(order, 1, k))

\* A plausible slip: the last k, not reversed.
TopKAscending(order, k) ==
    IF k = 0 \/ k >= Len(order) THEN order
    ELSE SubSeq(order, Len(order) - k + 1, Len(order))

\* order[-k:][::-1] for k >= 0 (order[-0:] is the whole array).
TopK(order, k) ==
    IF k = 0 \/ k >= Len(order) THEN Reverse(order)
    ELSE Reverse(SubSeq(order, Len(order) - k + 1, Len(order)))

\* A plausible slip: no early return for the empty store.
SearchResultNoGuard(q, k, order) ==
    IF Len(q) # Width(vectors) THEN [raised |-> TRUE, value |-> <<>>]
    ELSE [raised |-> FALSE, value |-> <<>>]

\* search(q, k) when np.argsort returns `order`: the returned list, or
\* raised when np.dot rejects the shapes (ValueError) or an index is
\* outside documents or metadata (IndexError).
SearchResult(q, k, order) ==
    IF Size(vectors) = 0 THEN [raised |-> FALSE, value |-> <<>>]
    ELSE IF Len(q) # Width(vectors) THEN [raised |-> TRUE, value |-> <<>>]
    ELSE LET cs == CosineSimilarities(q)
             top == TopK(order, k)
         IN  IF \E j \in 1..Len(top) :
                    top[j] > Len(documents) \/ top[j] > Len(metadata)
             THEN [raised |-> TRUE, value |-> <<>>]
             ELSE [raised |-> FALSE,
                   value |-> [j \in 1..Len(top) |->
                       <<documents[top[j]], cs[top[j]], metadata[top[j]]>>]]

\* The orders np.argsort may return for query q; one dummy order when the
\* call returns or raises before sorting.
SearchOrders(q) ==
    IF Size(vectors) = 0 \/ Len(q) # Width(vectors) THEN {<<>>}
    ELSE ArgSorts(CosineSimilarities(q))

Search(q, k, order) ==
    LET r == SearchResult(q, k, order)
    IN  /\ results' = r.value
        /\ last' = [op |-> "search", raised |-> r.raised,
                    arg |-> [query |-> q, k |-> k]]
        /\ UNCHANGED <<vectors, documents, metadata, disk, faults>>
        /\ UNCHANGED <<chunkVars, agentVars, threads, apiVars>>

(***************************************************************************)
(* The artifacts under storage_path.  A file is absent, torn (a write      *)
(* that failed after the file was opened and truncated), or holds what     *)
(* np.save or json.dump wrote.                                             *)
(***************************************************************************)
Artifacts == {"vec", "docs", "meta"}

NoFile == [kind |-> "absent"]
Torn == [kind |-> "torn"]

Exists(f) == f.kind # "absent"

\* np.save: the header (shape) and the elements in row-major order.
NpSave(arr) ==
    [kind |-> "npy", rows |-> Len(arr), cols |-> Width(arr), data |-> Flatten(arr)]

\* A plausible slip: the elements are read as one row, the header's
\* shape ignored.
NpLoadFlat(f) == IF f.rows = 0 THEN <<>> ELSE <<f.data>>

\* np.load: the elements, reshaped by the header.
NpLoad(f) ==
    [i \in 1..f.rows |-> SubSeq(f.data, (i - 1) * f.cols + 1, i * f.cols)]

\* json.dump of the list of texts: a JSON array of strings.
JsonDumpDocuments(ds) ==
    [kind |-> "json", items |-> [i \in 1..Len(ds) |-> <<"string", ds[i]>>]]

\* json.dump of the list of mappings: a JSON array of objects whose
\* members are numbers.
JsonDumpMetadata(ms) ==
    [kind |-> "json",
     items |-> [i \in 1..Len(ms) |->
                    <<"object", {<<m[1], <<"number", m[2]>>>> : m \in ms[i]}>>]]

RECURSIVE JsonValue(_)
JsonValue(j) ==
    IF j[1] = "object" THEN {<<m[1], JsonValue(m[2])>> : m \in j[2]} ELSE j[2]

\* json.load: the Python value of a JSON array.
JsonLoad(f) == [i \in 1..Len(f.items) |-> JsonValue(f.items[i])]

\* np.load / json.load raise on a torn file, and on an I/O error (fault).
ReadFails(f, a, fault) == f.kind = "torn" \/ fault = a

(***************************************************************************)
(* SimpleVectorStore.save.  fault.at is "none" or the artifact whose write *)
(* raises, leaving the file untouched (fault.mode "untouched": the open    *)
(* failed) or torn (fault.mode "torn").  The except clause swallows the    *)
(* exception; the artifacts after fault.at are not written.                *)
(***************************************************************************)
NoFault == [at |-> "none", mode |-> "none"]

WriteFaults ==
    {NoFault} \cup {[at |-> a, mode |-> m] : a \in Artifacts, m \in {"untouched", "torn"}}

Failed(old, mode) == IF mode = "torn" THEN Torn ELSE old

SaveDiskOf(d, st, fault) ==
    IF fault.at = "none"
    THEN [vec  |-> NpSave(st.vectors),
          docs |-> JsonDumpDocuments(st.documents),
          meta |-> JsonDumpMetadata(st.metadata)]
    ELSE IF fault.at = "vec"
    THEN [d EXCEPT !.vec = Failed(d.vec, fault.mode)]
    ELSE IF fault.at = "docs"
    THEN [d EXCEPT !.vec = NpSave(st.vectors),
                   !.docs = Failed(d.docs, fault.mode)]
    ELSE [d EXCEPT !.vec = NpSave(st.vectors),
                   !.docs = JsonDumpDocuments(st.documents),
                   !.meta = Failed(d.meta, fault.mode)]

\* save called on the store as it is.
SaveDisk(fault) ==
    SaveDiskOf(disk, [vectors |-> vectors, documents |-> documents,
                      metadata |-> metadata], fault)

\* A plausible slip: no try/except, so a failing write reaches the caller.
SaveRaisesUnguarded(fault) == fault.at # "none"

\* Whether save lets an exception reach its caller: never (lines 63, 73).
SaveRaises(fault) == FALSE

Save(fault) ==
    /\ fault.at # "none" => faults < MaxFaults
    /\ faults' = IF fault.at # "none" THEN faults + 1 ELSE faults
    /\ disk' = SaveDisk(fault)
    /\ last' = [op |-> "save", raised |-> SaveRaises(fault), arg |-> fault]
    /\ results' = <<>>
    /\ UNCHANGED <<vectors, documents, metadata>>
    /\ UNCHANGED <<chunkVars, agentVars, threads, apiVars>>

(***************************************************************************)
(* SimpleVectorStore.load on the store state mem = [vectors, documents,    *)
(* metadata], with the files d.  fault is "none" or the artifact whose     *)
(* read raises an I/O error.  The result is the store state after load and *)
(* the set of artifacts that were opened for reading.  The three fields    *)
(* are assigned one after the other; an exception stops the sequence and   *)
(* is swallowed by the except clause.                                      *)
(***************************************************************************)
ReadFaults == {"none"} \cup Artifacts

AllExist(d) == Exists(d.vec) /\ Exists(d.docs) /\ Exists(d.meta)

\* A plausible slip: the artifacts that exist are read one by one.
LoadResultAnyExisting(mem, d, fault) ==
    LET v == IF Exists(d.vec) /\ ~ReadFails(d.vec, "vec", fault)
             THEN NpLoad(d.vec) ELSE mem.vectors
        ds == IF Exists(d.docs) /\ ~ReadFails(d.docs, "docs", fault)
              THEN JsonLoad(d.docs) ELSE mem.documents
        ms == IF Exists(d.meta) /\ ~ReadFails(d.meta, "meta", fault)
              THEN JsonLoad(d.meta) ELSE mem.metadata
    IN  [vectors |-> v, documents |-> ds, metadata |-> ms,
         read |-> {a \in Artifacts : Exists(d[a])}]

LoadResult(mem, d, fault) ==
    IF ~AllExist(d) THEN mem @@ [read |-> {}]
    ELSE IF ReadFails(d.vec, "vec", fault) THEN mem @@ [read |-> {"vec"}]
    ELSE IF ReadFails(d.docs, "docs", fault)
    THEN [mem EXCEPT !.vectors = NpLoad(d.vec)] @@ [read |-> {"vec", "docs"}]
    ELSE IF ReadFails(d.meta, "meta", fault)
    THEN [mem EXCEPT !.vectors = NpLoad(d.vec),
                     !.documents = JsonLoad(d.docs)] @@ [read |-> Artifacts]
    ELSE [vectors |-> NpLoad(d.vec), documents |-> JsonLoad(d.docs),
          metadata |-> JsonLoad(d.meta), read |-> Artifacts]

\* Whether load lets an exception reach its caller: never (lines 77, 92).
LoadRaises(d, fault) == FALSE

\* The store state set up by __init__ before it calls load.
EmptyStore == [vectors |-> <<>>, documents |-> <<>>, metadata |-> <<>>]

\* SimpleVectorStore.__init__ on the files d.
NewStore(d, fault) == LoadResult(EmptyStore, d, fault)

\* A store is constructed on storage_path: the process starts again with
\* the files as they are, and the module-level store is the new instance.
Construct(fault) ==
    LET s == NewStore(disk, fault)
    IN  /\ fault # "none" => faults < MaxFaults
        /\ faults' = IF fault # "none" THEN faults + 1 ELSE faults
        /\ vectors' = s.vectors
        /\ documents' = s.documents
        /\ metadata' = s.metadata
        /\ last' = [op |-> "construct", raised |-> LoadRaises(disk, fault),
                    arg |-> [fault |-> fault, read |-> s.read,
                             allExist |-> AllExist(disk),
                             afterSave |-> last.op = "save" /\ last.arg.at = "none"]]
        /\ results' = <<>>
        /\ UNCHANGED disk
        /\ UNCHANGED <<chunkVars, agentVars, threads, apiVars>>

(***************************************************************************)
(* DocumentProcessor: Python's str operations.                             *)
(***************************************************************************)
IsSpace(c) == c \in {" ", "\n"}

\* re.sub(r'\s+', ' ', text): every run of whitespace becomes one space.
RECURSIVE Collapse(_)
Collapse(t) ==
    IF t = <<>> THEN <<>>
    ELSE IF IsSpace(Head(t))
    THEN IF Len(t) > 1 /\ IsSpace(t[2]) THEN Collapse(Tail(t))
         ELSE <<" ">> \o Collapse(Tail(t))
    ELSE <<Head(t)>> \o Collapse(Tail(t))

\* str.strip(): without leading and trailing whitespace.
RECURSIVE LStrip(_)
LStrip(t) == IF t # <<>> /\ IsSpace(Head(t)) THEN LStrip(Tail(t)) ELSE t

RECURSIVE RStrip(_)
RStrip(t) ==
    IF t # <<>> /\ IsSpace(t[Len(t)]) THEN RStrip(SubSeq(t, 1, Len(t) - 1)) ELSE t

Strip(t) == RStrip(LStrip(t))

\* clean_text without the trim of line 50.
clean_textNoStrip(t) == Collapse(t)

\* DocumentProcessor.clean_text
clean_text(t) == Strip(Collapse(t))

\* A slice bound i of a str of length n, as Python normalises it: a
\* negative bound counts from the end, and the result is kept in 0..n.
Bound(i, n) ==
    IF i < 0 THEN (IF i + n < 0 THEN 0 ELSE i + n)
    ELSE IF i > n THEN n ELSE i

\* t[i:j]
Slice(t, i, j) == SubSeq(t, Bound(i, Len(t)) + 1, Bound(j, Len(t)))

\* t.rfind(' ', i, j): the highest position of a space in t[i:j], or -1.
RFindSpace(t, i, j) ==
    LET hits == {p \in Bound(i, Len(t))..(Bound(j, Len(t)) - 1) : t[p + 1] = " "}
    IN  IF hits = {} THEN -1 ELSE CHOOSE p \in hits : \A r \in hits : r <= p

(***************************************************************************)
(* DocumentProcessor.chunk_text, one loop iteration per step.  The loop's  *)
(* control depends on the cursor alone (text and configuration are fixed   *)
(* during the call), so an iteration that starts from a cursor value the   *)
(* loop has started from before repeats forever: the model records the     *)
(* values in visited and moves to "diverged" instead of unrolling it.      *)
(***************************************************************************)
ChunkIdle ==
    /\ chunk_size = 1
    /\ chunk_overlap = 0
    /\ text = <<>>
    /\ start = 0
    /\ chunks = <<>>
    /\ chunk_index = 0
    /\ pc = "idle"
    /\ visited = {}

\* Lines 54-58: clean the text and set up the loop.
ChunkBegin ==
    /\ pc = "call"
    /\ text' = clean_text(text)
    /\ start' = 0
    /\ chunks' = <<>>
    /\ chunk_index' = 0
    /\ visited' = {}
    /\ pc' = "loop"
    /\ UNCHANGED <<chunk_size, chunk_overlap>>
    /\ UNCHANGED <<storeVars, agentVars, threads, apiVars>>

\* The window without the word-boundary snap of lines 63-66.
WindowEndNoSnap(s) == s + chunk_size

\* Lines 61-66: the end of the window that starts at s.
WindowEnd(s) ==
    LET end == s + chunk_size
        last_space == RFindSpace(text, s, end)
    IN  IF end < Len(text) /\ last_space > s THEN last_space ELSE end

\* Line 79: the cursor after the window [s, end).
NextStart(s, end) == IF end < Len(text) THEN end - chunk_overlap ELSE end

\* A chunk recorded with its two offsets exchanged.
AppendChunkSwapped(cs, chunk, idx, s, end) ==
    IF chunk # <<>>
    THEN Append(cs, [content |-> chunk, chunk_index |-> idx,
                     start_char |-> end, end_char |-> s])
    ELSE cs

\* Lines 70-76: a window that is not empty after trimming is appended with
\* the current index and the offsets of the window.
AppendChunk(cs, chunk, idx, s, end) ==
    IF chunk # <<>>
    THEN Append(cs, [content |-> chunk, chunk_index |-> idx,
                     start_char |-> s, end_char |-> end])
    ELSE cs

\* An index consumed by every window, dropped or not.
NextChunkIndexAlways(chunk, idx) == idx + 1

\* Lines 70 and 77: the index advances only when a chunk was appended.
NextChunkIndex(chunk, idx) == IF chunk # <<>> THEN idx + 1 ELSE idx

\* Lines 60-79: one iteration of the while loop, or its exit.
ChunkLoop ==
    /\ pc = "loop"
    /\ IF start >= Len(text)
       THEN /\ pc' = "done"
            /\ UNCHANGED <<start, chunks, chunk_index, visited>>
       ELSE IF start \in visited
       THEN /\ pc' = "diverged"
            /\ UNCHANGED <<start, chunks, chunk_index, visited>>
       ELSE LET end == WindowEnd(start)
                chunk == Strip(Slice(text, start, end))
            IN  /\ chunks' = AppendChunk(chunks, chunk, chunk_index, start, end)
                /\ chunk_index' = NextChunkIndex(chunk, chunk_index)
                /\ start' = NextStart(start, end)
                /\ visited' = visited \cup {start}
                /\ pc' = "loop"
    /\ UNCHANGED <<chunk_size, chunk_overlap, text>>
    /\ UNCHANGED <<storeVars, agentVars, threads, apiVars>>

(***************************************************************************)
(* LLMManager (src/src/utils/llm_manager.py).  The providers are outside   *)
(* the repository: a call of model.invoke or embed_query either returns or *)
(* raises.  For generation the provider's behaviour during one run is the  *)
(* number f of invocations that raise before the first one that returns.   *)
(***************************************************************************)
\* stop_after_attempt(3) of the retry decorator.
StopAfterAttempt == 3

\* The content of the provider's reply, and the embedding of the query.
ModelReply == "answer"

QueryEmbedding == <<1, 0>>

NoModels == [primary_model |-> FALSE, fallback_model |-> FALSE,
             embedding_model |-> FALSE, invocations |-> 0, messages |-> <<>>]

\* Lines 58-86 with use_fallback = True, after n invocations: the model is
\* the fallback model; without one ValueError is raised, and every
\* exception is re-raised (line 86).
FallbackAttempt(cfg, f, n) ==
    IF ~cfg.fallback_model THEN [ok |-> FALSE, n |-> n]
    ELSE [ok |-> n + 1 > f, n |-> n + 1]

\* The retry decorator around generate_response(messages, True): the body
\* is run again after an exception, StopAfterAttempt times at most.
RECURSIVE FallbackCall(_, _, _, _)
FallbackCall(cfg, f, n, attempt) ==
    LET r == FallbackAttempt(cfg, f, n)
    IN  IF r.ok \/ attempt >= StopAfterAttempt THEN r
        ELSE FallbackCall(cfg, f, r.n, attempt + 1)

\* Lines 58-86 with use_fallback = False: the primary model, and in the
\* except clause the decorated generate_response(messages, True) when a
\* fallback model is configured (line 85), else re-raise.
PrimaryAttempt(cfg, f, n) ==
    LET r == IF ~cfg.primary_model THEN [ok |-> FALSE, n |-> n]
             ELSE [ok |-> n + 1 > f, n |-> n + 1]
    IN  IF r.ok THEN r
        ELSE IF cfg.fallback_model THEN FallbackCall(cfg, f, r.n, 1)
        ELSE r

RECURSIVE PrimaryCall(_, _, _, _)
PrimaryCall(cfg, f, n, attempt) ==
    LET r == PrimaryAttempt(cfg, f, n)
    IN  IF r.ok \/ attempt >= StopAfterAttempt THEN r
        ELSE PrimaryCall(cfg, f, r.n, attempt + 1)

\* LLMManager.generate_response(messages) as the generate stage calls it:
\* whether it returned, and the model invocations it made.
generate_response(cfg, f) == PrimaryCall(cfg, f, 0, 1)

\* LLMManager.generate_embedding: raises without an embedding model or
\* when the provider fails.
generate_embedding(cfg, fails) ==
    [raised |-> ~cfg.embedding_model \/ fails, value |-> QueryEmbedding]

(***************************************************************************)
(* RAGAgent (src/src/agent/graph.py).  A dict is a function from keys to   *)
(* values; the context string is the sequence of its formatted entries,    *)
(* "" being the empty sequence; a message is its role and its content.     *)
(***************************************************************************)
top_k_docs == 5

DefaultSettings ==
    [log_all_states |-> TRUE, top_k_docs |-> top_k_docs,
     short_term_memory_window |-> 5]

\* A query that is a str, and an argument that is not one.
Str(v) == [str |-> TRUE, value |-> v]
NotStr == [str |-> FALSE, value |-> "None"]

\* {**d, k: v}
DictSet(d, k, v) == (k :> v) @@ d

HasKey(d, k) == k \in DOMAIN d

\* HumanMessage / AIMessage of the history, and the dicts of the prompt.
HumanMessage(c) == [role |-> "user", content |-> [kind |-> "plain", context |-> <<>>, text |-> c]]
AIMessage(c) == [role |-> "assistant", content |-> [kind |-> "plain", context |-> <<>>, text |-> c]]
SystemMessage == [role |-> "system", content |-> [kind |-> "plain", context |-> <<>>, text |-> "system prompt"]]

GenerateApology == "I apologize, but I encountered an error generating a response. Please try again."
RunApology == "I apologize, but I encountered an error processing your request."

SessionId == "s1"
StartTime == "t0"

NoState ==
    [messages |-> <<>>, query |-> Str(""), retrieved_docs |-> <<>>,
     context |-> <<>>, response |-> "", session_id |-> "",
     metadata |-> [start_time |-> ""]]

NoResult ==
    [returned |-> FALSE, raised |-> FALSE, response |-> "",
     retrieved_docs |-> <<>>, metadata |-> [start_time |-> ""]]

\* The tables before any request, and no request being handled.
NoDb == [sessions |-> {}, messages |-> <<>>, documents |-> <<>>]

NoRoute == [pc |-> "idle", session_id |-> "", message |-> "", history |-> <<>>,
            user_row |-> 0, status |-> 0]

ApiIdle ==
    /\ db = NoDb
    /\ route = NoRoute

AgentIdle ==
    /\ settings = DefaultSettings
    /\ llm = NoModels
    /\ state = NoState
    /\ node = "idle"
    /\ run_result = NoResult
    /\ agent_states = <<>>
    /\ stages = <<>>

NoThreads == [add |-> [pc |-> "idle"], search |-> [pc |-> "idle"],
              save |-> [pc |-> "idle"], load |-> [pc |-> "idle"]]

\* _persist_state: the rows after the call; an exception of the session is
\* caught and logged (lines 172-173), and nothing is written when
\* log_all_states is off.
PersistState(rows, name, data, fails) ==
    IF settings.log_all_states /\ ~fails
    THEN Append(rows, [session_id |-> state.session_id, state_name |-> name,
                       state_data |-> data])
    ELSE rows

\* A snapshot whose failure reaches the stage that asked for it.
PersistRaisesUnguarded(fails) == settings.log_all_states /\ fails

\* Whether _persist_state lets an exception reach the calling stage:
\* never (lines 172-173 catch and log it).
PersistRaises(fails) == FALSE

\* f"{score:.2f}": the score in hundredths (exact for the scores of the
\* model, which are multiples of 1/5).
Hundredths(x) == IF x[2] = 0 THEN 0 ELSE (x[1] * 100) \div x[2]

\* Lines 55-66: the retrieved documents and the context string.
RetrievedDocs(rs) ==
    [i \in 1..Len(rs) |-> [content |-> rs[i][1], score |-> rs[i][2], metadata |-> rs[i][3]]]

ContextString(docs) ==
    [i \in 1..Len(docs) |->
        [document |-> i, relevance |-> Hundredths(docs[i].score), content |-> docs[i].content]]

\* A plausible slip: the except clause of run logs and re-raises.
RunExceptReraise(e) ==
    [returned |-> TRUE, raised |-> TRUE, response |-> "",
     retrieved_docs |-> <<>>, metadata |-> [error |-> e]]

\* Lines 196-202: what run returns when graph.invoke raised e.
RunExcept(e) ==
    [returned |-> TRUE, raised |-> FALSE, response |-> RunApology,
     retrieved_docs |-> <<>>, metadata |-> [error |-> e]]

\* Lines 191-195: what run returns when the graph completed in state st.
RunReturn(st) ==
    [returned |-> TRUE, raised |-> FALSE, response |-> st.response,
     retrieved_docs |-> st.retrieved_docs, metadata |-> st.metadata]

\* A plausible slip: the except clause of the retrieve stage returns the
\* metadata without the error annotation.
RetrieveExceptNoAnnotation(st, e) ==
    [raised |-> FALSE, retrieved_docs |-> <<>>, context |-> <<>>,
     metadata |-> st.metadata]

\* Lines 80-86: the update of the retrieve stage when its try block raised e.
RetrieveExcept(st, e) ==
    [raised |-> FALSE, retrieved_docs |-> <<>>, context |-> <<>>,
     metadata |-> DictSet(st.metadata, "retrieval_error", e)]

\* An except clause that returns only its own annotation, without merging
\* the metadata it received.
GenerateExceptFreshMetadata(st, e) ==
    [raised |-> FALSE, response |-> GenerateApology,
     messages |-> <<AIMessage(GenerateApology)>>,
     metadata |-> [generation_error |-> e]]

\* Lines 138-145: the update of the generate stage when its try block
\* raised e.
GenerateExcept(st, e) ==
    [raised |-> FALSE, response |-> GenerateApology,
     messages |-> <<AIMessage(GenerateApology)>>,
     metadata |-> DictSet(st.metadata, "generation_error", e)]

\* Lines 178-189 of run: the initial state handed to graph.invoke.
RunBegin(query, history) ==
    /\ node = "idle"
    /\ state' = [messages |-> history, query |-> query, retrieved_docs |-> <<>>,
                 context |-> <<>>, response |-> "", session_id |-> SessionId,
                 metadata |-> [start_time |-> StartTime]]
    /\ node' = "retrieve"
    /\ UNCHANGED <<settings, llm, run_result, agent_states, stages>>
    /\ UNCHANGED <<storeVars, chunkVars, threads, apiVars>>

\* What a node saw when it was entered, and how its try block ended.
Stage(name, failed) ==
    [stage |-> name, failed |-> failed, context |-> state.context,
     retrieved_docs |-> state.retrieved_docs]

\* _retrieve_documents, lines 50-86: the node's update.  The try block
\* raises when the embedding fails or when search raises.
RetrieveDocuments(st, embed_fails, order, persist_fails) ==
    LET emb == generate_embedding(llm, embed_fails)
        sr == SearchResult(emb.value, settings.top_k_docs, order)
        docs == RetrievedDocs(sr.value)
    IN  IF emb.raised THEN [failed |-> TRUE] @@ RetrieveExcept(st, "EmbeddingError")
        ELSE IF sr.raised THEN [failed |-> TRUE] @@ RetrieveExcept(st, "SearchError")
        ELSE IF PersistRaises(persist_fails)
        THEN [failed |-> TRUE] @@ RetrieveExcept(st, "PersistError")
        ELSE [failed |-> FALSE, raised |-> FALSE, retrieved_docs |-> docs,
              context |-> ContextString(docs),
              metadata |-> DictSet(st.metadata, "retrieval_count", Len(docs))]

\* The retrieve node.  Line 48 slices the query before the try block: an
\* argument that is not a str raises there, graph.invoke raises and run
\* returns through its except clause.
RetrieveNode(embed_fails, order, persist_fails) ==
    /\ node = "retrieve"
    /\ IF ~state.query.str
       THEN /\ run_result' = RunExcept("TypeError")
            /\ node' = "returned"
            /\ stages' = Append(stages, Stage("aborted", TRUE))
            /\ UNCHANGED <<state, agent_states>>
       ELSE LET u == RetrieveDocuments(state, embed_fails, order, persist_fails)
            IN  IF u.raised
                THEN /\ run_result' = RunExcept("RetrievalError")
                     /\ node' = "returned"
                     /\ stages' = stages \o <<Stage("retrieve", TRUE),
                                               Stage("aborted", TRUE)>>
                     /\ UNCHANGED <<state, agent_states>>
                ELSE /\ state' = [state EXCEPT !.retrieved_docs = u.retrieved_docs,
                                               !.context = u.context,
                                               !.metadata = u.metadata]
                     /\ agent_states' =
                            IF u.failed THEN agent_states
                            ELSE PersistState(agent_states, "retrieve",
                                     [query |-> state.query.value,
                                      retrieved_count |-> Len(u.retrieved_docs),
                                      top_score |-> IF u.retrieved_docs # <<>>
                                                    THEN u.retrieved_docs[1].score
                                                    ELSE <<0, 1>>],
                                     persist_fails)
                     /\ stages' = Append(stages, Stage("retrieve", u.failed))
                     /\ node' = "generate"
                     /\ UNCHANGED run_result
    /\ UNCHANGED <<settings, llm>>
    /\ UNCHANGED <<storeVars, chunkVars, threads, apiVars>>

\* state.get("messages", [])[-N:] for N >= 0 (s[-0:] is the whole list).
LastN(s, n) == IF n = 0 \/ n >= Len(s) THEN s ELSE SubSeq(s, Len(s) - n + 1, Len(s))

\* A plausible slip: the composite is appended whatever the last message
\* of the window is.
PromptMessagesAppend(st) ==
    Append(<<SystemMessage>> \o LastN(st.messages, settings.short_term_memory_window),
           [role |-> "user",
            content |-> IF st.context # <<>>
                        THEN [kind |-> "context+question", context |-> st.context,
                              text |-> st.query.value]
                        ELSE [kind |-> "question", context |-> <<>>,
                              text |-> st.query.value]])

\* Lines 92-123: the messages passed to generate_response.
PromptMessages(st) ==
    LET messages == <<SystemMessage>> \o LastN(st.messages, settings.short_term_memory_window)
        context_message ==
            [role |-> "user",
             content |-> IF st.context # <<>>
                         THEN [kind |-> "context+question", context |-> st.context,
                               text |-> st.query.value]
                         ELSE [kind |-> "question", context |-> <<>>,
                               text |-> st.query.value]]
    IN  IF messages[Len(messages)].role = "user"
        THEN [messages EXCEPT ![Len(messages)] = context_message]
        ELSE Append(messages, context_message)

\* _generate_response, lines 91-145: the node's update when the provider
\* fails f times.  generate_response raises tenacity's RetryError once its
\* attempts are used up.
GenerateResponse(st, f, persist_fails) ==
    LET r == generate_response(llm, f)
    IN  IF r.ok /\ PersistRaises(persist_fails)
        THEN [failed |-> TRUE] @@ GenerateExcept(st, "PersistError")
        ELSE IF r.ok
        THEN [failed |-> FALSE, raised |-> FALSE, response |-> ModelReply,
              messages |-> <<AIMessage(ModelReply)>>, metadata |-> st.metadata]
        ELSE [failed |-> TRUE] @@ GenerateExcept(st, "RetryError")

\* The generate node.
GenerateNode(f, persist_fails) ==
    /\ node = "generate"
    /\ LET u == GenerateResponse(state, f, persist_fails)
       IN  /\ llm' = [llm EXCEPT !.invocations = generate_response(llm, f).n,
                                 !.messages = PromptMessages(state)]
           /\ stages' = IF u.raised
                        THEN stages \o <<Stage("generate", TRUE), Stage("aborted", TRUE)>>
                        ELSE Append(stages, Stage("generate", u.failed))
           /\ IF u.raised
              THEN /\ run_result' = RunExcept("GenerationError")
                   /\ node' = "returned"
                   /\ UNCHANGED <<state, agent_states>>
              ELSE /\ state' = [state EXCEPT !.response = u.response,
                                             !.messages = @ \o u.messages,
                                             !.metadata = u.metadata]
                   /\ agent_states' =
                          IF u.failed THEN agent_states
                          ELSE PersistState(agent_states, "generate",
                                   [query |-> state.query.value,
                                    response |-> u.response,
                                    context_used |-> state.context # <<>>],
                                   persist_fails)
                   /\ node' = "log_state"
                   /\ UNCHANGED run_result
    /\ UNCHANGED settings
    /\ UNCHANGED <<storeVars, chunkVars, threads, apiVars>>

\* The log_state node (lines 147-158), after which graph.invoke returns
\* and run returns the final state's fields (lines 191-195).
LogStateNode(persist_fails) ==
    /\ node = "log_state"
    /\ agent_states' = PersistState(agent_states, "complete",
                           [query |-> state.query.value,
                            response |-> state.response,
                            documents_used |-> Len(state.retrieved_docs),
                            metadata |-> state.metadata],
                           persist_fails)
    /\ IF PersistRaises(persist_fails)
       THEN /\ stages' = stages \o <<Stage("log_state", TRUE), Stage("aborted", TRUE)>>
            /\ run_result' = RunExcept("PersistError")
       ELSE /\ stages' = Append(stages, Stage("log_state", FALSE))
            /\ run_result' = RunReturn(state)
    /\ node' = "returned"
    /\ UNCHANGED <<settings, llm, state>>
    /\ UNCHANGED <<storeVars, chunkVars, threads, apiVars>>

(***************************************************************************)
(* ConversationManager (src/src/utils/conversation_manager.py) and the     *)
(* chat route (src/src/api/routes.py).  The messages table is the sequence *)
(* of its rows in timestamp order, which is the order of insertion.  The   *)
(* handler is a coroutine without await points: requests do not interleave.*)
(***************************************************************************)
\* The session id create_session generates.
NewSessionId == "s2"

\* add_message, lines 37-51: the messages table after the commit.
AddMessage(rows, sid, role, content) ==
    Append(rows, [session_id |-> sid, role |-> role, content |-> content])

\* filter_by(session_id=...).order_by(Message.timestamp)
SessionRows(rows, sid) == SelectSeq(rows, LAMBDA r : r.session_id = sid)

\* Lines 70-75: user rows become HumanMessage, assistant rows AIMessage,
\* rows of any other role are skipped.
RECURSIVE ToLangchain(_)
ToLangchain(rows) ==
    IF rows = <<>> THEN <<>>
    ELSE LET r == Head(rows)
             rest == ToLangchain(Tail(rows))
         IN  IF r.role = "user" THEN <<HumanMessage(r.content)>> \o rest
             ELSE IF r.role = "assistant" THEN <<AIMessage(r.content)>> \o rest
             ELSE rest

\* get_conversation_history(session_id): [] when the query raises.
get_conversation_history(rows, sid, fails) ==
    IF fails THEN <<>> ELSE ToLangchain(SessionRows(rows, sid))

\* chat, lines 51-57: the session is created when the request names none,
\* the user turn is recorded, then the history is fetched.  create_session
\* and add_message re-raise and the handler answers 500.
ChatReceive(message, sid, create_fails, add_fails, history_fails) ==
    LET session_id == IF sid = "" THEN NewSessionId ELSE sid
        sessions == IF sid = "" /\ ~create_fails
                    THEN db.sessions \cup {NewSessionId} ELSE db.sessions
        rows == AddMessage(db.messages, session_id, "user", message)
    IN  /\ route.pc = "idle"
        /\ node = "idle"
        /\ IF (sid = "" /\ create_fails) \/ add_fails
           THEN /\ db' = [db EXCEPT !.sessions = sessions]
                /\ route' = [route EXCEPT !.pc = "raised", !.session_id = session_id,
                                          !.message = message, !.status = 500]
           ELSE /\ db' = [db EXCEPT !.sessions = sessions, !.messages = rows]
                /\ route' = [pc |-> "run", session_id |-> session_id,
                             message |-> message,
                             history |-> get_conversation_history(rows, session_id,
                                                                  history_fails),
                             user_row |-> Len(rows), status |-> 0]
        /\ UNCHANGED <<storeVars, chunkVars, agentVars, threads>>

\* chat, lines 59-63: rag_agent.run with the request's message and the
\* fetched history.
ChatRun ==
    /\ route.pc = "run"
    /\ RunBegin(Str(route.message), route.history)

\* chat, lines 65-77: the reply is recorded and returned; add_message
\* re-raises and the handler answers 500.
ChatRespond(add_fails) ==
    /\ route.pc = "run"
    /\ node = "returned"
    /\ IF add_fails
       THEN /\ route' = [route EXCEPT !.pc = "raised", !.status = 500]
            /\ UNCHANGED db
       ELSE /\ db' = [db EXCEPT !.messages =
                          AddMessage(@, route.session_id, "assistant",
                                     run_result.response)]
            /\ route' = [route EXCEPT !.pc = "returned", !.status = 200]
    /\ UNCHANGED <<storeVars, chunkVars, agentVars, threads>>

(***************************************************************************)
(* Inputs.                                                                 *)
(***************************************************************************)
\* The metadata upload_document supplies: one mapping per chunk, holding
\* the chunk's index.
ChunkMetadata(n) == [j \in 1..n |-> {<<"chunk_index", j - 1>>}]

\* The argument triples (vectors, documents, metadata) of add with up to n
\* items, vectors from V and texts from D: len(vectors) = len(documents),
\* and metadata is None or has that length too.
Batches(V, D, n) ==
    UNION {{[vectors |-> vs, documents |-> ds, metadata |-> ms] :
                vs \in [1..len -> V], ds \in [1..len -> D],
                ms \in {None, Given(ChunkMetadata(len))}} : len \in 0..n}

Docs == {"a", "b"}

\* Vectors of the store's dimension, and one that is too short.
WideVecs == {<<1, 0>>, <<3, 4>>}
NarrowVecs == {<<2>>}

MemBatches == Batches(WideVecs, Docs, MaxBatch) \cup Batches(NarrowVecs, Docs, MaxBatch)

(***************************************************************************)
(* MemSpec: one store in memory, from the empty store, under add and clear.*)
(***************************************************************************)
NoCall == [op |-> "init", raised |-> FALSE, arg |-> <<>>]

NoDisk == [vec |-> NoFile, docs |-> NoFile, meta |-> NoFile]

MemInit ==
    /\ vectors = <<>>
    /\ documents = <<>>
    /\ metadata = <<>>
    /\ disk = NoDisk
    /\ last = NoCall
    /\ results = <<>>
    /\ faults = 0
    /\ AgentIdle
    /\ ApiIdle
    /\ threads = NoThreads
    /\ ChunkIdle

MemAdd ==
    \E b \in MemBatches :
        /\ Len(documents) + Len(b.documents) <= MaxDocs
        /\ Add(b.vectors, b.documents, b.metadata)

MemNext == MemAdd \/ Clear

MemSpec == MemInit /\ [][MemNext]_vars

(***************************************************************************)
(* SearchSpec: one store in memory, from the empty store, under add, clear *)
(* and search.                                                             *)
(***************************************************************************)
\* One item per call, each vector with a text of its own; two of the items
\* come with metadata, two without.
SearchBatches ==
    {[vectors |-> <<<<1, 0>>>>, documents |-> <<"a">>, metadata |-> None],
     [vectors |-> <<<<-1, 0>>>>, documents |-> <<"b">>,
      metadata |-> Given(ChunkMetadata(1))],
     [vectors |-> <<<<0, 0>>>>, documents |-> <<"c">>,
      metadata |-> Given(<<{<<"chunk_index", 1>>}>>)],
     [vectors |-> <<<<2>>>>, documents |-> <<"d">>, metadata |-> None]}

\* Query vectors: two of the store's dimension and one that is too short.
Queries == {<<1, 0>>, <<3, 4>>, <<1>>}

MaxK == MaxSearchDocs + 1

SearchAdd ==
    \E b \in SearchBatches :
        /\ Len(documents) + Len(b.documents) <= MaxSearchDocs
        /\ Add(b.vectors, b.documents, b.metadata)

SearchAny ==
    \E q \in Queries : \E order \in SearchOrders(q) : \E k \in 1..MaxK :
        Search(q, k, order)

SearchNext == SearchAdd \/ Clear \/ SearchAny

SearchSpec == MemInit /\ [][SearchNext]_vars

(***************************************************************************)
(* Claims about the store in memory.                                       *)
(***************************************************************************)
Min(a, b) == IF a <= b THEN a ELSE b

\* C1: Parallel-array invariant.  In every state reached from the empty
\* store by add and clear calls whose arguments have equal lengths, the
\* matrix has as many rows as documents and metadata have elements.
C1_ParallelArrays ==
    /\ Len(vectors) = Len(documents)
    /\ Len(documents) = Len(metadata)

\* C1 witness: an add of one item on a store that holds two entries has
\* raised (np.vstack rejected the row) and the store still holds the two.
C1_Witness ==
    /\ last.op = "add"
    /\ last.raised
    /\ Len(last.arg.documents) = 1
    /\ Len(documents) = 2

DimensionOK(vs) == \A i \in 1..Len(vs) : Len(vs[i]) = Dimension

C6_TopK ==
    (/\ last.op = "search"
     /\ Len(documents) >= 1
     /\ C1_ParallelArrays
     /\ Len(last.arg.query) = Width(vectors))
    =>
    LET n == Len(documents)
        q == last.arg.query
        sim(i) == <<Dot(vectors[i], q), Norm(vectors[i]) * Norm(q)>>
        m == Len(results)
    IN  /\ ~last.raised
        /\ m = Min(last.arg.k, n)
        /\ \E idx \in [1..m -> 1..n] :
            /\ \A i, j \in 1..m : i # j => idx[i] # idx[j]
            /\ \A j \in 1..m :
                 results[j] = <<documents[idx[j]], sim(idx[j]), metadata[idx[j]]>>
            /\ \A j \in 1..(m - 1) : ScoreGeq(results[j][2], results[j + 1][2])
            /\ \A i \in 1..n : (\A j \in 1..m : idx[j] # i) =>
                 \A j \in 1..m : ScoreGeq(results[j][2], sim(i))

\* C6 witness: a search with k = 2 on three entries of distinct similarity
\* returned two triples.
C6_Witness ==
    /\ last.op = "search"
    /\ ~last.raised
    /\ last.arg.k = 2
    /\ Len(documents) = 3
    /\ Len(results) = 2
    /\ ScoreLt(results[2][2], results[1][2])
    /\ \E i \in 1..3 : ScoreLt(Cosine(vectors[i], last.arg.query), results[2][2])

\* C7: Empty-store query.  A search on a store without entries returns the
\* empty list and raises nothing, for every query vector and every k >= 1.
C7_EmptySearch ==
    (last.op = "search" /\ Len(vectors) = 0 /\ Len(documents) = 0)
    => (results = <<>> /\ ~last.raised)

\* C7 witness: a search with a query shorter than the store's dimension
\* has run on a store without entries.
C7_Witness ==
    /\ last.op = "search"
    /\ Len(vectors) = 0
    /\ Len(documents) = 0
    /\ Len(last.arg.query) # Dimension
    /\ last.arg.k = MaxK

(***************************************************************************)
(* DiskSpec: the store and its artifacts under add, clear, save and        *)
(* construction.  The process starts with any subset of the artifacts of   *)
(* an earlier run under storage_path.                                      *)
(***************************************************************************)
\* What an earlier run saved: one entry.
SeedDisk ==
    [vec  |-> NpSave(<<<<1, 0>>>>),
     docs |-> JsonDumpDocuments(<<"a">>),
     meta |-> JsonDumpMetadata(ChunkMetadata(1))]

\* The item added at position i of the store: a vector, a text and a
\* mapping that differ from those of the positions next to it.
DiskVec(i) == <<i, 0>>
DiskDoc(i) == IF i % 2 = 1 THEN "a" ELSE "b"
DiskMeta(i) == {<<"chunk_index", i - 1>>}

ConstructCall(d, fault, afterSave) ==
    [op |-> "construct", raised |-> LoadRaises(d, fault),
     arg |-> [fault |-> fault, read |-> NewStore(d, fault).read,
              allExist |-> AllExist(d), afterSave |-> afterSave]]

DiskInit ==
    \E present \in SUBSET Artifacts :
        /\ disk = [vec  |-> IF "vec" \in present THEN SeedDisk.vec ELSE NoFile,
                   docs |-> IF "docs" \in present THEN SeedDisk.docs ELSE NoFile,
                   meta |-> IF "meta" \in present THEN SeedDisk.meta ELSE NoFile]
        /\ vectors = NewStore(disk, "none").vectors
        /\ documents = NewStore(disk, "none").documents
        /\ metadata = NewStore(disk, "none").metadata
        /\ last = ConstructCall(disk, "none", FALSE)
        /\ results = <<>>
        /\ faults = 0
        /\ AgentIdle
        /\ ApiIdle
        /\ threads = NoThreads
        /\ ChunkIdle

DiskAdd ==
    \E n \in 0..MaxBatch :
        /\ Len(documents) + n <= MaxDiskDocs
        /\ Len(vectors) + n <= MaxDiskDocs
        /\ Add([j \in 1..n |-> DiskVec(Len(documents) + j)],
               [j \in 1..n |-> DiskDoc(Len(documents) + j)],
               Given([j \in 1..n |-> DiskMeta(Len(documents) + j)]))

SaveAny == \E fault \in WriteFaults : Save(fault)

ConstructAny == \E fault \in ReadFaults : Construct(fault)

DiskNext == DiskAdd \/ Clear \/ SaveAny \/ ConstructAny

DiskSpec == DiskInit /\ [][DiskNext]_vars

(***************************************************************************)
(* Claims about persistence.                                               *)
(***************************************************************************)
StoreEmpty == vectors = <<>> /\ documents = <<>> /\ metadata = <<>>

\* C2: Store round-trip.  A store constructed on storage_path right after a
\* save whose three writes succeeded, with no read error, holds the same
\* vectors, documents and metadata, position by position, as the store
\* that was saved.
C2_RoundTrip ==
    [][(/\ last.op = "save"
        /\ last.arg.at = "none"
        /\ last'.op = "construct"
        /\ last'.arg.fault = "none")
       => (vectors' = vectors /\ documents' = documents /\ metadata' = metadata)
      ]_vars

\* C2 witness: a store was constructed right after a successful save and
\* holds two aligned entries that differ.
C2_Witness ==
    /\ last.op = "construct"
    /\ last.arg.afterSave
    /\ last.arg.fault = "none"
    /\ Len(vectors) = 2 /\ Len(documents) = 2 /\ Len(metadata) = 2
    /\ vectors[1] # vectors[2]
    /\ documents[1] # documents[2]
    /\ metadata[1] # metadata[2]

\* A read of load failed at the last construction: an artifact is torn or
\* its read raised an I/O error.
SomeReadFailed ==
    \E a \in Artifacts : ReadFails(disk[a], a, last.arg.fault)

\* C3: Load degrades to empty.  When a store is constructed, the three
\* artifacts exist and the read of one of them fails, load raises nothing
\* and vectors, documents and metadata are all empty afterwards.
C3_LoadFailureStartsFresh ==
    (last.op = "construct" /\ last.arg.allExist /\ SomeReadFailed)
    => (~last.raised /\ StoreEmpty)

\* C4: Load reads the artifacts if and only if all three exist.  When a
\* store is constructed with a proper subset of the artifacts present, no
\* artifact is read, nothing is raised and the store is empty; with all
\* three present the matrix is read.
C4_LoadOnlyIfAllExist ==
    last.op = "construct" =>
        /\ ~last.arg.allExist =>
              (last.arg.read = {} /\ ~last.raised /\ StoreEmpty)
        /\ last.arg.allExist => "vec" \in last.arg.read

\* C4 witness: a store was constructed while vectors.npy held the two rows
\* of an interrupted save, documents.json the one text of an earlier run,
\* and metadata.json was missing.
C4_Witness ==
    /\ last.op = "construct"
    /\ disk.vec.kind = "npy" /\ disk.vec.rows = 2
    /\ disk.docs.kind = "json" /\ Len(disk.docs.items) = 1
    /\ disk.meta.kind = "absent"

\* C8: clear and the artifacts.  A clear call empties vectors, documents
\* and metadata and leaves every artifact as it was, so that a store
\* constructed afterwards loads what was saved before the clear; a save
\* whose writes succeed on the cleared store leaves the artifacts of an
\* empty store.
C8_ClearKeepsArtifacts ==
    [][/\ last'.op = "clear" => (StoreEmpty' /\ disk' = disk)
       /\ (last.op = "clear" /\ last'.op = "save" /\ last'.arg.at = "none") =>
             /\ disk'.vec.kind = "npy" /\ disk'.vec.rows = 0
             /\ disk'.docs.kind = "json" /\ disk'.docs.items = <<>>
             /\ disk'.meta.kind = "json" /\ disk'.meta.items = <<>>
      ]_vars

\* C8 witness: the store was cleared while the artifacts hold two saved
\* entries, which a store constructed now would load.
C8_Witness ==
    /\ last.op = "clear"
    /\ StoreEmpty
    /\ AllExist(disk)
    /\ Len(NewStore(disk, "none").vectors) = 2
    /\ Len(NewStore(disk, "none").documents) = 2
    /\ Len(NewStore(disk, "none").metadata) = 2

\* C9: save changes nothing in memory and raises nothing.  At every save
\* call, whether each write succeeds or fails, vectors, documents and
\* metadata are the same before and after, and no exception reaches the
\* caller.
C9_SaveKeepsMemory ==
    [][last'.op = "save" =>
        /\ vectors' = vectors
        /\ documents' = documents
        /\ metadata' = metadata
        /\ ~last'.raised
      ]_vars

\* C9 witness: a save on a store of two entries failed while writing
\* documents.json, which is left torn.
C9_Witness ==
    /\ last.op = "save"
    /\ last.arg.at = "docs"
    /\ last.arg.mode = "torn"
    /\ disk.docs = Torn
    /\ Len(documents) = 2

(***************************************************************************)
(* ChunkSpec: one call of chunk_text on any text of up to MaxTextLen       *)
(* characters, with any chunk_size >= 1 and 0 <= chunk_overlap <           *)
(* chunk_size.                                                             *)
(***************************************************************************)
Chars == {"x", " ", "\n"}

Texts == UNION {[1..n -> Chars] : n \in 0..MaxTextLen}

ChunkInit ==
    /\ chunk_size \in 1..MaxChunkSize
    /\ chunk_overlap \in 0..(chunk_size - 1)
    /\ text \in Texts
    /\ start = 0
    /\ chunks = <<>>
    /\ chunk_index = 0
    /\ pc = "call"
    /\ visited = {}
    /\ vectors = <<>>
    /\ documents = <<>>
    /\ metadata = <<>>
    /\ disk = NoDisk
    /\ last = NoCall
    /\ results = <<>>
    /\ faults = 0
    /\ AgentIdle
    /\ ApiIdle
    /\ threads = NoThreads

ChunkNext == ChunkBegin \/ ChunkLoop

ChunkSpec == ChunkInit /\ [][ChunkNext]_vars

(***************************************************************************)
(* Claims about the chunker.                                               *)
(***************************************************************************)
\* C10: Chunker termination.  For every text and every configuration with
\* chunk_size >= 1 and 0 <= chunk_overlap < chunk_size, chunk_text
\* terminates: the loop never starts an iteration from a cursor value it
\* has already started from, which would repeat without end.
C10_ChunkerTerminates == pc # "diverged"

(***************************************************************************)
(* WideChunkSpec: one call of chunk_text with windows of 2..MaxWideSize    *)
(* characters on texts of words and spaces of up to MaxWideLen characters, *)
(* long enough for a window to be snapped back to a space that lies        *)
(* within chunk_overlap characters of the cursor.                          *)
(***************************************************************************)
WideChars == {"x", " "}

WideTexts == UNION {[1..n -> WideChars] : n \in 0..MaxWideLen}

WideChunkInit ==
    /\ chunk_size \in 2..MaxWideSize
    /\ chunk_overlap \in 0..(chunk_size - 1)
    /\ text \in WideTexts
    /\ start = 0
    /\ chunks = <<>>
    /\ chunk_index = 0
    /\ pc = "call"
    /\ visited = {}
    /\ vectors = <<>>
    /\ documents = <<>>
    /\ metadata = <<>>
    /\ disk = NoDisk
    /\ last = NoCall
    /\ results = <<>>
    /\ faults = 0
    /\ AgentIdle
    /\ ApiIdle
    /\ threads = NoThreads

WideChunkSpec == WideChunkInit /\ [][ChunkNext]_vars

\* Position p of the cleaned text lies in the range of a returned chunk.
Covered(p) ==
    \E i \in 1..Len(chunks) : chunks[i].start_char <= p /\ p < chunks[i].end_char

\* C11: Chunk coverage.  When chunk_text returns, every character position
\* of the cleaned text lies in [start_char, end_char) of at least one of the
\* returned chunks.
C11_ChunkCoverage ==
    pc = "done" => \A p \in 0..(Len(text) - 1) : Covered(p)

\* C12: Chunk overlap.  When chunk_text returns, every two consecutive
\* chunks i, i+1 satisfy end_char[i] - start_char[i+1] = chunk_overlap.
C12_ChunkOverlap ==
    pc = "done" =>
        \A i \in 1..(Len(chunks) - 1) :
            chunks[i].end_char - chunks[i + 1].start_char = chunk_overlap

\* The positions of the spaces strictly inside the window of chunk c.
SpacesInWindow(c) ==
    {p \in (c.start_char + 1)..(c.start_char + chunk_size - 1) :
        p >= 0 /\ p < Len(text) /\ text[p + 1] = " "}

\* Chunk c ends at the last space strictly inside its window, when its
\* candidate end lies before the end of the text and there is such a space.
SnappedToSpace(c) ==
    (c.start_char + chunk_size < Len(text) /\ SpacesInWindow(c) # {}) =>
        /\ c.end_char \in SpacesInWindow(c)
        /\ \A p \in SpacesInWindow(c) : p <= c.end_char

\* C13: Word-boundary preservation.  Every chunk whose candidate end
\* start_char + chunk_size lies strictly before the end of the cleaned text,
\* and whose window holds a space at a position p with start_char < p <
\* start_char + chunk_size, ends at the largest such p: every chunk of a
\* returned result, and at every moment every chunk appended from a cursor
\* inside the text.
C13_WordBoundary ==
    /\ pc = "done" => \A i \in 1..Len(chunks) : SnappedToSpace(chunks[i])
    /\ pc \in {"loop", "done", "diverged"} =>
           \A i \in 1..Len(chunks) :
               chunks[i].start_char >= 0 => SnappedToSpace(chunks[i])

\* A returned chunk was snapped back from its candidate end to a space.
C13_Witness ==
    /\ pc = "done"
    /\ \E i \in 1..Len(chunks) :
           /\ chunks[i].start_char + chunk_size < Len(text)
           /\ SpacesInWindow(chunks[i]) # {}
           /\ chunks[i].end_char < chunks[i].start_char + chunk_size
           /\ text[chunks[i].end_char + 1] = " "

\* The single chunk that spans the whole cleaned text.
OneWholeChunk ==
    /\ Len(chunks) = 1
    /\ chunks[1].start_char = 0
    /\ chunks[1].content = text

\* C14 as stated: every text whose cleaned form is shorter than chunk_size
\* gives exactly one chunk, with start_char = 0 and the whole cleaned text
\* as content.
C14_ShortTextOriginal ==
    (pc = "done" /\ Len(text) < chunk_size) => OneWholeChunk

\* C14: Short text.  Every text whose cleaned form is not empty and is
\* shorter than chunk_size gives exactly one chunk, with start_char = 0
\* and the whole cleaned text as content; a text whose cleaned form is
\* empty gives no chunk.
C14_ShortText ==
    /\ (pc = "done" /\ Len(text) < chunk_size /\ text # <<>>) => OneWholeChunk
    /\ (pc = "done" /\ text = <<>>) => chunks = <<>>

\* A call on a text that cleans to two characters has returned its one
\* chunk.
C14_Witness ==
    /\ pc = "done"
    /\ Len(text) = 2
    /\ Len(text) < chunk_size
    /\ OneWholeChunk

(***************************************************************************)
(* AgentSpec: one call of RAGAgent.run, for every configuration of the     *)
(* models, a store that is empty, holds two entries, or holds an entry of  *)
(* another width than the query embedding (search raises), and every       *)
(* failure of the embedding, the generation provider and the snapshots.    *)
(***************************************************************************)
AgentStores ==
    {[vectors |-> <<>>, documents |-> <<>>, metadata |-> <<>>],
     [vectors |-> <<<<1, 0>>, <<3, 4>>>>, documents |-> <<"a", "b">>,
      metadata |-> ChunkMetadata(2)],
     [vectors |-> <<<<2>>>>, documents |-> <<"d">>, metadata |-> ChunkMetadata(1)]}

AgentQueries == {Str("what is x?"), NotStr}

Histories ==
    {<<>>,
     <<HumanMessage("hi"), AIMessage("hello")>>,
     <<HumanMessage("hi"), AIMessage("hello"), HumanMessage("what is x?")>>}

AgentInit ==
    /\ \E s \in AgentStores :
           /\ vectors = s.vectors
           /\ documents = s.documents
           /\ metadata = s.metadata
    /\ disk = NoDisk
    /\ last = NoCall
    /\ results = <<>>
    /\ faults = 0
    /\ ChunkIdle
    /\ ApiIdle
    /\ threads = NoThreads
    /\ settings \in [log_all_states : BOOLEAN, top_k_docs : {top_k_docs},
                     short_term_memory_window : 0..MaxWindow]
    /\ llm \in [primary_model : BOOLEAN, fallback_model : BOOLEAN,
                embedding_model : BOOLEAN, invocations : {0}, messages : {<<>>}]
    /\ state = NoState
    /\ node = "idle"
    /\ run_result = NoResult
    /\ agent_states = <<>>
    /\ stages = <<>>

RunAny == \E q \in AgentQueries, h \in Histories : RunBegin(q, h)

RetrieveAny ==
    \E embed_fails \in BOOLEAN, persist_fails \in BOOLEAN :
        \E order \in SearchOrders(QueryEmbedding) :
            RetrieveNode(embed_fails, order, persist_fails)

GenerateAny ==
    \E f \in 0..MaxFailing, persist_fails \in BOOLEAN : GenerateNode(f, persist_fails)

LogStateAny == \E persist_fails \in BOOLEAN : LogStateNode(persist_fails)

AgentNext == RunAny \/ RetrieveAny \/ GenerateAny \/ LogStateAny

AgentSpec == AgentInit /\ [][AgentNext]_vars

\* The stage named s was executed in this run.
Executed(s) == \E i \in 1..Len(stages) : stages[i].stage = s

StageOf(s) == stages[CHOOSE i \in 1..Len(stages) : stages[i].stage = s]

\* C15: RAGAgent.run never lets an exception escape.  Whatever fails
\* (embedding, search, generation, snapshots, the graph itself), run
\* returns a mapping with the keys response, retrieved_docs and metadata,
\* and the response is an apology string whenever generation failed or the
\* graph aborted.
C15_RunNeverRaises ==
    node = "returned" =>
        /\ run_result.returned
        /\ ~run_result.raised
        /\ {"response", "retrieved_docs", "metadata"} \subseteq DOMAIN run_result
        /\ (Executed("generate") /\ StageOf("generate").failed) =>
               run_result.response \in {GenerateApology, RunApology}
        /\ Executed("aborted") => run_result.response = RunApology

\* Retrieval failed, then generation failed, and run returned the apology.
C15_Witness ==
    /\ node = "returned"
    /\ Executed("retrieve") /\ StageOf("retrieve").failed
    /\ Executed("generate") /\ StageOf("generate").failed
    /\ llm.invocations > 0
    /\ run_result.response = GenerateApology

\* C16: Retrieval failure is non-fatal.  Once query embedding or store
\* search has raised inside the retrieve stage, the generate stage is the
\* next to run, it runs with an empty context and no retrieved documents,
\* and the metadata run returns holds retrieval_error.
C16_RetrievalFailureNonFatal ==
    (Executed("retrieve") /\ StageOf("retrieve").failed) =>
        /\ node \in {"generate", "log_state", "returned"}
        /\ node = "generate" => state.context = <<>> /\ state.retrieved_docs = <<>>
        /\ node # "generate" =>
               /\ Executed("generate")
               /\ StageOf("generate").context = <<>>
               /\ StageOf("generate").retrieved_docs = <<>>
        /\ node = "returned" =>
               /\ HasKey(run_result.metadata, "retrieval_error")
               /\ run_result.retrieved_docs = <<>>

\* Search raised on a store of another width, generation then succeeded.
C16_Witness ==
    /\ node = "returned"
    /\ vectors # <<>>
    /\ Executed("retrieve") /\ StageOf("retrieve").failed
    /\ run_result.metadata["retrieval_error"] = "SearchError"
    /\ run_result.response = ModelReply

(***************************************************************************)
(* SaveLoadSpec: one thread runs save on a store while another thread      *)
(* constructs a store on the same storage_path.  The store in memory holds *)
(* its first n entries; the files are absent or hold the artifacts of an   *)
(* earlier save of the first m entries.  A step of a thread is one file    *)
(* operation: save opens (and truncates) and then writes each artifact,    *)
(* load tests the three paths and then reads the artifacts one by one.     *)
(* The store under construction keeps its fields in threads.load.          *)
(***************************************************************************)
\* The store that holds its first n entries.
Canon(n) ==
    [vectors   |-> [i \in 1..n |-> DiskVec(i)],
     documents |-> [i \in 1..n |-> DiskDoc(i)],
     metadata  |-> [i \in 1..n |-> DiskMeta(i)]]

\* The artifacts a completed save of the store state st leaves.
SavedArtifacts(st) ==
    [vec  |-> NpSave(st.vectors),
     docs |-> JsonDumpDocuments(st.documents),
     meta |-> JsonDumpMetadata(st.metadata)]

SaveLoadInit ==
    /\ \E n \in 0..MaxDiskDocs :
           /\ vectors = Canon(n).vectors
           /\ documents = Canon(n).documents
           /\ metadata = Canon(n).metadata
    /\ \/ disk = NoDisk
       \/ \E m \in 0..MaxDiskDocs : disk = SavedArtifacts(Canon(m))
    /\ last = NoCall
    /\ results = <<>>
    /\ faults = 0
    /\ AgentIdle
    /\ ChunkIdle
    /\ ApiIdle
    /\ threads = [NoThreads EXCEPT
                     !.save = [pc |-> "open_vec"],
                     !.load = [pc |-> "exists", failed |-> FALSE, vectors |-> <<>>,
                               documents |-> <<>>, metadata |-> <<>>]]

\* The next file operation of save (lines 64-70).
SaveThreadStep ==
    LET t == threads.save
    IN  /\ t.pc \in {"open_vec", "write_vec", "open_docs", "write_docs",
                     "open_meta", "write_meta"}
        /\ disk' = CASE t.pc = "open_vec"   -> [disk EXCEPT !.vec = Torn]
                     [] t.pc = "write_vec"  -> [disk EXCEPT !.vec = NpSave(vectors)]
                     [] t.pc = "open_docs"  -> [disk EXCEPT !.docs = Torn]
                     [] t.pc = "write_docs" -> [disk EXCEPT !.docs = JsonDumpDocuments(documents)]
                     [] t.pc = "open_meta"  -> [disk EXCEPT !.meta = Torn]
                     [] t.pc = "write_meta" -> [disk EXCEPT !.meta = JsonDumpMetadata(metadata)]
        /\ threads' = [threads EXCEPT !.save.pc =
                          CASE t.pc = "open_vec"   -> "write_vec"
                            [] t.pc = "write_vec"  -> "open_docs"
                            [] t.pc = "open_docs"  -> "write_docs"
                            [] t.pc = "write_docs" -> "open_meta"
                            [] t.pc = "open_meta"  -> "write_meta"
                            [] t.pc = "write_meta" -> "done"]
        /\ UNCHANGED <<vectors, documents, metadata, last, results, faults>>
        /\ UNCHANGED <<chunkVars, agentVars, apiVars>>

\* The next file operation of load (lines 82-89) in the constructing
\* thread; a read that raises ends load through the except clause.
LoadThreadStep ==
    LET t == threads.load
    IN  /\ t.pc \in {"exists", "vec", "docs", "meta"}
        /\ threads' = [threads EXCEPT !.load =
              CASE t.pc = "exists" ->
                       [t EXCEPT !.pc = IF AllExist(disk) THEN "vec" ELSE "done"]
                [] t.pc = "vec" ->
                       IF ReadFails(disk.vec, "vec", "none")
                       THEN [t EXCEPT !.pc = "done", !.failed = TRUE]
                       ELSE [t EXCEPT !.pc = "docs", !.vectors = NpLoad(disk.vec)]
                [] t.pc = "docs" ->
                       IF ReadFails(disk.docs, "docs", "none")
                       THEN [t EXCEPT !.pc = "done", !.failed = TRUE]
                       ELSE [t EXCEPT !.pc = "meta", !.documents = JsonLoad(disk.docs)]
                [] t.pc = "meta" ->
                       IF ReadFails(disk.meta, "meta", "none")
                       THEN [t EXCEPT !.pc = "done", !.failed = TRUE]
                       ELSE [t EXCEPT !.pc = "done", !.metadata = JsonLoad(disk.meta)]]
        /\ UNCHANGED storeVars
        /\ UNCHANGED <<chunkVars, agentVars, apiVars>>

SaveLoadNext == SaveThreadStep \/ LoadThreadStep

SaveLoadSpec == SaveLoadInit /\ [][SaveLoadNext]_vars

\* C17: Atomic save versus concurrent load.  A store constructed while
\* another thread saves to the same storage path never ends up with a
\* partially-written set: its vectors, documents and metadata have equal
\* lengths and are the entries of one saved state.
C17_LoadSeesWholeSave ==
    threads.load.pc = "done" =>
        /\ Len(threads.load.vectors) = Len(threads.load.documents)
        /\ Len(threads.load.documents) = Len(threads.load.metadata)
        /\ \E k \in 0..MaxDiskDocs :
               /\ threads.load.vectors = Canon(k).vectors
               /\ threads.load.documents = Canon(k).documents
               /\ threads.load.metadata = Canon(k).metadata

(***************************************************************************)
(* FreshDiskSpec: the runs of DiskSpec that start with no artifacts under  *)
(* storage_path.                                                           *)
(***************************************************************************)
FreshDiskInit ==
    /\ disk = NoDisk
    /\ vectors = <<>>
    /\ documents = <<>>
    /\ metadata = <<>>
    /\ last = ConstructCall(NoDisk, "none", FALSE)
    /\ results = <<>>
    /\ faults = 0
    /\ AgentIdle
    /\ ApiIdle
    /\ threads = NoThreads
    /\ ChunkIdle

FreshDiskSpec == FreshDiskInit /\ [][DiskNext]_vars

\* C18: Persisted state is a unit.  Starting from no artifacts, after any
\* sequence of add, clear and save in which a save may fail after writing
\* only some of the artifacts, a store constructed from the storage path
\* (its reads succeeding) holds vectors, documents and metadata of equal
\* length that are the entries of one saved state.
C18_PersistedStateIsUnit ==
    (last.op = "construct" /\ last.arg.fault = "none") =>
        /\ Len(vectors) = Len(documents)
        /\ Len(documents) = Len(metadata)
        /\ \E k \in 0..MaxDiskDocs :
               /\ vectors = Canon(k).vectors
               /\ documents = Canon(k).documents
               /\ metadata = Canon(k).metadata

(***************************************************************************)
(* AddSearchSpec: one thread runs add and another runs search on the same  *)
(* store, with no lock (the store has none).  A step of a thread is one    *)
(* access to a field of the store: add assigns self.vectors (line 29 or    *)
(* 31), then extends self.documents (line 33), then self.metadata (line    *)
(* 34); search tests self.vectors (line 39), reads it for the dot products *)
(* (line 45) and again for the norms (line 46), and then reads             *)
(* self.documents[idx] and self.metadata[idx] for every selected index     *)
(* (lines 52-57).                                                          *)
(***************************************************************************)
\* A plausible slip: add extends the two lists first and assigns the
\* matrix last.
AddThreadStepListsFirst(t) ==
    CASE t.pc = "vectors" ->
             [t |-> [t EXCEPT !.pc = "documents"], vectors |-> vectors,
              documents |-> documents \o t.ds, metadata |-> metadata]
      [] t.pc = "documents" ->
             [t |-> [t EXCEPT !.pc = "metadata"], vectors |-> vectors,
              documents |-> documents, metadata |-> metadata \o t.ms]
      [] t.pc = "metadata" ->
             [t |-> [t EXCEPT !.pc = "done"],
              vectors |-> IF Size(vectors) = 0 THEN t.vs ELSE vectors \o t.vs,
              documents |-> documents, metadata |-> metadata]

\* The next access of add, in thread state t: the thread and the three
\* fields after it.
AddThreadStep(t) ==
    CASE t.pc = "vectors" ->
             IF Size(vectors) # 0 /\ Width(t.vs) # Width(vectors)
             THEN [t |-> [t EXCEPT !.pc = "done", !.raised = TRUE], vectors |-> vectors,
                   documents |-> documents, metadata |-> metadata]
             ELSE [t |-> [t EXCEPT !.pc = "documents"],
                   vectors |-> IF Size(vectors) = 0 THEN t.vs ELSE vectors \o t.vs,
                   documents |-> documents, metadata |-> metadata]
      [] t.pc = "documents" ->
             [t |-> [t EXCEPT !.pc = "metadata"], vectors |-> vectors,
              documents |-> documents \o t.ds, metadata |-> metadata]
      [] t.pc = "metadata" ->
             [t |-> [t EXCEPT !.pc = "done"], vectors |-> vectors,
              documents |-> documents, metadata |-> metadata \o t.ms]

AddThread ==
    /\ threads.add.pc \in {"vectors", "documents", "metadata"}
    /\ LET r == AddThreadStep(threads.add)
       IN  /\ threads' = [threads EXCEPT !.add = r.t]
           /\ vectors' = r.vectors
           /\ documents' = r.documents
           /\ metadata' = r.metadata
    /\ UNCHANGED <<disk, last, results, faults>>
    /\ UNCHANGED <<chunkVars, agentVars, apiVars>>

\* similarities / (norms + 1e-10) on the two arrays search has computed:
\* elementwise when they have the same length, the single element
\* repeated when one of them has length 1 (numpy broadcasting), and
\* ValueError otherwise.
Broadcast(sims, norms) ==
    IF Len(sims) = Len(norms)
    THEN [raised |-> FALSE, value |-> [i \in 1..Len(sims) |-> <<sims[i], norms[i]>>]]
    ELSE IF Len(sims) = 1
    THEN [raised |-> FALSE, value |-> [i \in 1..Len(norms) |-> <<sims[1], norms[i]>>]]
    ELSE IF Len(norms) = 1
    THEN [raised |-> FALSE, value |-> [i \in 1..Len(sims) |-> <<sims[i], norms[1]>>]]
    ELSE [raised |-> TRUE, value |-> <<>>]

\* The next access of search, in thread state t, when np.argsort returns
\* `order` (used at line 49 only).
SearchThreadStep(t, order) ==
    CASE t.pc = "l39" ->
             IF Size(vectors) = 0 THEN [t EXCEPT !.pc = "done"]
             ELSE [t EXCEPT !.pc = "l45"]
      [] t.pc = "l45" ->
             IF Len(t.q) # Width(vectors)
             THEN [t EXCEPT !.pc = "done", !.raised = "ValueError"]
             ELSE [t EXCEPT !.pc = "l46",
                            !.similarities = [i \in 1..Len(vectors) |-> Dot(vectors[i], t.q)]]
      [] t.pc = "l46" ->
             LET norms == [i \in 1..Len(vectors) |-> Norm(vectors[i]) * Norm(t.q)]
                 cs == Broadcast(t.similarities, norms)
             IN  IF cs.raised THEN [t EXCEPT !.pc = "done", !.raised = "ValueError"]
                 ELSE [t EXCEPT !.pc = "l49", !.cs = cs.value]
      [] t.pc = "l49" ->
             [t EXCEPT !.pc = IF TopK(order, t.k) = <<>> THEN "done" ELSE "l54",
                       !.top = TopK(order, t.k), !.i = 1]
      [] t.pc = "l54" ->
             IF t.top[t.i] > Len(documents)
             THEN [t EXCEPT !.pc = "done", !.raised = "IndexError",
                            !.seen = Len(documents)]
             ELSE [t EXCEPT !.pc = "l56", !.doc = documents[t.top[t.i]]]
      [] t.pc = "l56" ->
             IF t.top[t.i] > Len(metadata)
             THEN [t EXCEPT !.pc = "done", !.raised = "IndexError",
                            !.seen = Len(metadata)]
             ELSE [t EXCEPT !.pc = IF t.i = Len(t.top) THEN "done" ELSE "l54",
                            !.i = t.i + 1,
                            !.results = Append(t.results,
                                <<t.doc, t.cs[t.top[t.i]], metadata[t.top[t.i]]>>)]

SearchThread ==
    /\ threads.search.pc \in {"l39", "l45", "l46", "l49", "l54", "l56"}
    /\ \E order \in IF threads.search.pc = "l49" THEN ArgSorts(threads.search.cs)
                    ELSE {<<>>} :
           threads' = [threads EXCEPT !.search = SearchThreadStep(threads.search, order)]
    /\ UNCHANGED storeVars
    /\ UNCHANGED <<chunkVars, agentVars, apiVars>>

RaceKs == {1, top_k_docs}

AddSearchInit ==
    /\ ApiIdle
    /\ \E n \in 0..MaxRaceDocs :
           /\ vectors = Canon(n).vectors
           /\ documents = Canon(n).documents
           /\ metadata = Canon(n).metadata
           /\ \E b \in 1..MaxRaceBatch, k \in RaceKs :
                  threads = [NoThreads EXCEPT
                      !.add = [pc |-> "vectors", raised |-> FALSE,
                               vs |-> [j \in 1..b |-> DiskVec(n + j)],
                               ds |-> [j \in 1..b |-> DiskDoc(n + j)],
                               ms |-> [j \in 1..b |-> DiskMeta(n + j)]],
                      !.search = [pc |-> "l39", raised |-> "none", q |-> QueryEmbedding,
                                  k |-> k, similarities |-> <<>>, cs |-> <<>>,
                                  top |-> <<>>, i |-> 0, doc |-> "", seen |-> 0,
                                  results |-> <<>>]]
    /\ disk = NoDisk
    /\ last = NoCall
    /\ results = <<>>
    /\ faults = 0
    /\ AgentIdle
    /\ ChunkIdle

AddSearchNext == AddThread \/ SearchThread

AddSearchSpec == AddSearchInit /\ [][AddSearchNext]_vars

\* C19: Unsynchronized add/search race.  The lengths a concurrent search
\* can observe are ordered, metadata <= documents <= vector rows; there
\* are more vector rows than documents exactly while add has assigned the
\* matrix and not yet extended documents (and more documents than metadata
\* while it has not yet extended metadata); and a search that raised
\* IndexError had selected, among the rows it saw, an index beyond the
\* list it read.  The witness is the interleaving itself.
C19_AddSearchRace ==
    /\ Len(metadata) <= Len(documents)
    /\ Len(documents) <= Len(vectors)
    /\ Len(documents) < Len(vectors) <=> threads.add.pc = "documents"
    /\ Len(metadata) < Len(documents) <=> threads.add.pc = "metadata"
    /\ threads.search.raised = "IndexError" =>
           /\ threads.search.top[threads.search.i] > threads.search.seen
           /\ Len(threads.search.cs) > threads.search.seen

\* Search computed its scores over more rows than there were documents and
\* selected an index outside documents: reading it raised IndexError.
C19_Witness ==
    /\ threads.search.pc = "done"
    /\ threads.search.raised = "IndexError"
    /\ Len(threads.search.cs) > threads.search.seen
    /\ threads.search.top[threads.search.i] > threads.search.seen
    /\ threads.add.pc \in {"documents", "metadata", "done"}

\* The vectors vs of an add differ in length from the vectors the store
\* holds or from its configured dimension.
DimensionMismatch(vs) ==
    /\ vs # <<>>
    /\ \/ Width(vs) # Dimension
       \/ vectors # <<>> /\ Width(vs) # Width(vectors)

\* The call add(arg) appended its items to all three sequences.
AppendedAll(arg) ==
    /\ vectors' = vectors \o arg.vectors
    /\ documents' = documents \o arg.documents
    /\ metadata' = metadata \o (IF arg.metadata.given THEN arg.metadata.items
                                ELSE DefaultMetadata(arg.documents))

\* C20 as stated: for every store state, an add whose vectors have a
\* length different from that of the held vectors or from the configured
\* dimension raises no error and appends to all three sequences.
C20_MismatchNotSignaledOriginal ==
    [][(last'.op = "add" /\ DimensionMismatch(last'.arg.vectors)) =>
           (~last'.raised /\ AppendedAll(last'.arg))]_vars

\* C20: Dimension mismatch is signaled only against the held vectors.  An
\* add whose vectors have a length different from the configured dimension
\* raises no error and appends to all three sequences when the store is
\* empty or holds vectors of that same length; an add whose vectors differ
\* in length from the held vectors raises and leaves the three sequences
\* as they were.
C20_MismatchNotSignaled ==
    [][(last'.op = "add" /\ DimensionMismatch(last'.arg.vectors)) =>
           /\ last'.raised <=>
                  (vectors # <<>> /\ Width(last'.arg.vectors) # Width(vectors))
           /\ ~last'.raised => AppendedAll(last'.arg)
           /\ last'.raised => UNCHANGED <<vectors, documents, metadata>>]_vars

\* Vectors shorter than the configured dimension were added to the empty
\* store and then again to the store that held them, without an error.
C20_Witness ==
    /\ last.op = "add"
    /\ ~last.raised
    /\ Width(last.arg.vectors) # Dimension
    /\ Len(last.arg.vectors) = 1
    /\ Len(vectors) = 2
    /\ Width(vectors) # Dimension

(***************************************************************************)
(* Claims about the records chunk_text returns.                            *)
(***************************************************************************)
\* C21: Chunk indices are contiguous and chunks are non-empty.  In every
\* list returned by chunk_text the n-th chunk (counting from 0) has
\* chunk_index n and a content that is non-empty and trimmed; a window that
\* is empty after trimming is dropped without consuming an index, so the
\* next index is always the number of chunks appended so far.
C21_ChunkIndices ==
    /\ chunk_index = Len(chunks)
    /\ pc = "done" =>
          \A i \in 1..Len(chunks) :
              /\ chunks[i].chunk_index = i - 1
              /\ chunks[i].content # <<>>
              /\ Strip(chunks[i].content) = chunks[i].content

\* A returned list in which the window between two chunks was a single
\* space and was dropped: "x x" cut into windows of one character.
C21_Witness ==
    /\ pc = "done"
    /\ chunk_size = 1
    /\ Len(chunks) = 2
    /\ chunks[1].end_char = 1
    /\ chunks[2].start_char = 2
    /\ chunks[2].chunk_index = 1

\* C22: Chunk offsets are well-formed.  With 0 <= chunk_overlap <
\* chunk_size, every chunk of a list returned by chunk_text has
\* start_char >= 0 and end_char > start_char, and start_char does not
\* decrease along the list.
C22_ChunkOffsets ==
    pc = "done" =>
        /\ \A i \in 1..Len(chunks) :
               /\ chunks[i].start_char >= 0
               /\ chunks[i].end_char > chunks[i].start_char
        /\ \A i \in 1..(Len(chunks) - 1) :
               chunks[i].start_char <= chunks[i + 1].start_char

\* A returned list whose first window was snapped back to a space and
\* whose second chunk starts inside the first one, chunk_overlap characters
\* before its end.
C22_Witness ==
    /\ pc = "done"
    /\ chunk_overlap > 0
    /\ Len(chunks) >= 2
    /\ chunks[1].end_char < chunk_size
    /\ chunks[2].start_char = chunks[1].end_char - chunk_overlap
    /\ chunks[2].start_char > 0

(***************************************************************************)
(* Claims about the generate stage.                                        *)
(***************************************************************************)
\* The conversation history run was called with: the generate node appends
\* exactly one message, its reply, to state.messages.
PriorTurns ==
    IF Executed("generate") /\ ~Executed("aborted")
    THEN SubSeq(state.messages, 1, Len(state.messages) - 1)
    ELSE state.messages

\* The last n turns of h: all of them when h has no more than n, none
\* when n is 0.
LastTurns(h, n) ==
    IF n >= Len(h) THEN h ELSE SubSeq(h, Len(h) - n + 1, Len(h))

\* The message is the composite that carries the current query.
IsComposite(m) ==
    /\ m.role = "user"
    /\ m.content.kind \in {"context+question", "question"}
    /\ m.content.text = state.query.value
    /\ m.content.context = StageOf("generate").context

\* C23: Generate-stage message assembly.  The message list passed to the
\* generation provider starts with the system instruction followed by the
\* last N prior turns, N being short_term_memory_window; if the last of
\* these is a user turn it is replaced by the context+query composite and
\* the list has 1 + (number of windowed turns) messages, otherwise the
\* composite is appended and the list has 2 + (number of windowed turns);
\* in both cases the final message is the only composite of the list.
C23_MessageAssembly ==
    (Executed("generate") /\ ~Executed("aborted")) =>
        LET w == LastTurns(PriorTurns, settings.short_term_memory_window)
            m == llm.messages
            replaced == w # <<>> /\ w[Len(w)].role = "user"
            kept == IF replaced THEN Len(w) - 1 ELSE Len(w)
        IN  /\ m # <<>>
            /\ m[1] = SystemMessage
            /\ Len(m) = IF replaced THEN 1 + Len(w) ELSE 2 + Len(w)
            /\ \A i \in 1..kept : i + 1 <= Len(m) /\ m[i + 1] = w[i]
            /\ IsComposite(m[Len(m)])
            /\ \A i \in 1..(Len(m) - 1) : m[i].content.kind = "plain"

\* Every key of the mapping a is a key of b with the same value.
Extends(b, a) == \A k \in DOMAIN a : k \in DOMAIN b /\ b[k] = a[k]

\* C24: Metadata accumulates across stages.  In every run in which the
\* graph completes, each stage (retrieve, generate, log_state) leaves every
\* key of the metadata mapping it received in place with the same value,
\* whether its try block succeeded or failed, and the metadata run returns
\* holds the start_time run set together with everything accumulated.
C24_MetadataAccumulates ==
    [][/\ (node \in {"retrieve", "generate", "log_state"} /\ ~Executed("aborted")')
           => Extends(state'.metadata, state.metadata)
       /\ (node' = "returned" /\ ~Executed("aborted")')
           => /\ HasKey(run_result'.metadata, "start_time")
              /\ run_result'.metadata["start_time"] = StartTime
              /\ Extends(run_result'.metadata, state.metadata)]_vars

\* A completed run whose retrieve stage succeeded and whose generate stage
\* failed: the returned metadata holds the keys of all three writers.
C24_Witness ==
    /\ node = "returned"
    /\ ~Executed("aborted")
    /\ DOMAIN run_result.metadata = {"start_time", "retrieval_count", "generation_error"}
    /\ run_result.metadata["start_time"] = StartTime

\* C25: Bounded generation retries.  When the generate stage calls
\* generate_response with a primary and a fallback model configured and
\* every model invocation fails, at most 3 model invocations are made in
\* total, primary and fallback together, before the call gives up and the
\* apology becomes the reply.
C25_BoundedRetries ==
    (/\ Executed("generate")
     /\ StageOf("generate").failed
     /\ llm.primary_model
     /\ llm.fallback_model)
    => /\ llm.invocations <= StopAfterAttempt
       /\ state.response = GenerateApology

\* C26: Snapshot failure does not change the result.  A _persist_state
\* call that fails in the retrieve, generate or log_state stage changes
\* nothing in what run returns: each stage leaves the reply, the retrieved
\* documents and the metadata exactly as the same stage does when its
\* snapshot is written, the next stage is still entered, and run returns
\* the fields of the final state.
C26_SnapshotFailureHarmless ==
    [][/\ (node = "retrieve" /\ state.query.str) =>
              \E embed_fails \in BOOLEAN, order \in SearchOrders(QueryEmbedding) :
                  LET u == RetrieveDocuments(state, embed_fails, order, FALSE)
                  IN  IF u.raised THEN node' = "returned"
                      ELSE /\ node' = "generate"
                           /\ state'.retrieved_docs = u.retrieved_docs
                           /\ state'.context = u.context
                           /\ state'.metadata = u.metadata
       /\ node = "generate" =>
              \E f \in 0..MaxFailing :
                  LET u == GenerateResponse(state, f, FALSE)
                  IN  /\ node' = "log_state"
                      /\ state'.response = u.response
                      /\ state'.retrieved_docs = state.retrieved_docs
                      /\ state'.metadata = u.metadata
       /\ node = "log_state" =>
              /\ node' = "returned"
              /\ run_result' = RunReturn(state)]_vars

\* The snapshot of the stage named name is missing although the stage ran
\* to the end of its try block with snapshots enabled.
SnapshotLost(stage, name) ==
    /\ settings.log_all_states
    /\ Executed(stage)
    /\ ~StageOf(stage).failed
    /\ \A i \in 1..Len(agent_states) : agent_states[i].state_name # name

\* A run in which all three snapshots failed and which returned the
\* model's reply together with the retrieved documents.
C26_Witness ==
    /\ node = "returned"
    /\ SnapshotLost("retrieve", "retrieve")
    /\ SnapshotLost("generate", "generate")
    /\ SnapshotLost("log_state", "complete")
    /\ run_result.response = ModelReply
    /\ run_result.retrieved_docs # <<>>
    /\ DOMAIN run_result.metadata = {"start_time", "retrieval_count"}

(***************************************************************************)
(* Claims about failing operations.                                        *)
(***************************************************************************)
\* C27: A failed add is all-or-nothing.  When an add on a non-empty store
\* raises because the new vectors' row width differs from that of the held
\* vectors, the store's vectors, documents and metadata are exactly what
\* they were before the call, and the three still have equal lengths.
C27_FailedAddAtomic ==
    [][(/\ last'.op = "add"
        /\ last'.raised
        /\ vectors # <<>>
        /\ Width(last'.arg.vectors) # Width(vectors)) =>
           /\ vectors' = vectors
           /\ documents' = documents
           /\ metadata' = metadata
           /\ Len(vectors') = Len(documents')
           /\ Len(documents') = Len(metadata')]_vars

\* Two items with metadata and narrow vectors were offered to a store that
\* held one wide entry: the add raised and the store still holds that one.
C27_Witness ==
    /\ last.op = "add"
    /\ last.raised
    /\ Len(last.arg.documents) = 2
    /\ last.arg.metadata.given
    /\ Width(last.arg.vectors) = 1
    /\ Len(vectors) = 1
    /\ Width(vectors) = Dimension
    /\ Len(documents) = 1
    /\ Len(metadata) = 1

(***************************************************************************)
(* ChatSpec: one chat request, for every configuration of the models and   *)
(* the window, on a messages table that is empty or holds earlier turns of *)
(* the session (one of them with the text of the new request, one left     *)
(* without a reply) and rows of another session and of another role.       *)
(***************************************************************************)
ChatMessages == {"what is x?", "hi"}

ChatTables ==
    {<<>>,
     <<[session_id |-> "s1", role |-> "user", content |-> "hi"],
       [session_id |-> "s0", role |-> "user", content |-> "other"],
       [session_id |-> "s1", role |-> "assistant", content |-> "hello"]>>,
     <<[session_id |-> "s1", role |-> "user", content |-> "what is x?"],
       [session_id |-> "s1", role |-> "tool", content |-> "lookup"],
       [session_id |-> "s1", role |-> "assistant", content |-> ModelReply]>>,
     <<[session_id |-> "s1", role |-> "user", content |-> "hi"],
       [session_id |-> "s1", role |-> "assistant", content |-> "hello"],
       [session_id |-> "s1", role |-> "user", content |-> "what is x?"]>>}

ChatInit ==
    /\ \E s \in AgentStores :
           /\ vectors = s.vectors
           /\ documents = s.documents
           /\ metadata = s.metadata
    /\ disk = NoDisk
    /\ last = NoCall
    /\ results = <<>>
    /\ faults = 0
    /\ ChunkIdle
    /\ threads = NoThreads
    /\ settings \in [log_all_states : {TRUE}, top_k_docs : {top_k_docs},
                     short_term_memory_window : 0..MaxWindow]
    /\ llm \in [primary_model : BOOLEAN, fallback_model : BOOLEAN,
                embedding_model : BOOLEAN, invocations : {0}, messages : {<<>>}]
    /\ state = NoState
    /\ node = "idle"
    /\ run_result = NoResult
    /\ agent_states = <<>>
    /\ stages = <<>>
    /\ db \in [sessions : {{"s0", "s1"}}, messages : ChatTables, documents : {<<>>}]
    /\ route = NoRoute

ChatReceiveAny ==
    \E message \in ChatMessages, sid \in {"", SessionId} :
        \E create_fails \in BOOLEAN, add_fails \in BOOLEAN, history_fails \in BOOLEAN :
            ChatReceive(message, sid, create_fails, add_fails, history_fails)

ChatRespondAny == \E add_fails \in BOOLEAN : ChatRespond(add_fails)

ChatNext ==
    \/ ChatReceiveAny
    \/ ChatRun
    \/ RetrieveAny
    \/ GenerateAny
    \/ LogStateAny
    \/ ChatRespondAny

ChatSpec == ChatInit /\ [][ChatNext]_vars

\* The turns of the request's session that were recorded before the
\* request's own user turn.
TurnsBeforeRequest ==
    ToLangchain(SessionRows(SubSeq(db.messages, 1, route.user_row - 1),
                            route.session_id))

\* C28: The chat endpoint does not duplicate the current query.  For any
\* session history and any window N >= 1, the user turn being recorded
\* before the history is fetched, the message list sent to the provider
\* holds exactly one message derived from the current request, the final
\* composite: the messages between the system instruction and the
\* composite are the last N - 1 turns recorded before the request (none
\* when the history could not be fetched), so the raw query of the request
\* is not among them.
C28_NoDuplicateQuery ==
    (/\ route.pc \in {"run", "returned", "raised"}
     /\ Executed("generate")
     /\ settings.short_term_memory_window >= 1) =>
        LET m == llm.messages
            k == IF route.history = <<>> THEN 0
                 ELSE settings.short_term_memory_window - 1
        IN  /\ Len(m) >= 2
            /\ m[1] = SystemMessage
            /\ IsComposite(m[Len(m)])
            /\ m[Len(m)].content.text = route.message
            /\ SubSeq(m, 2, Len(m) - 1) = LastTurns(TurnsBeforeRequest, k)

\* A request answered with window 2 in a session whose last recorded turn
\* is an unanswered user turn with the same text: the provider got the
\* system instruction, that earlier turn and the composite.
C28_Witness ==
    /\ route.pc = "returned"
    /\ route.status = 200
    /\ settings.short_term_memory_window = 2
    /\ Len(route.history) = 4
    /\ Len(llm.messages) = 3
    /\ llm.messages[2] = HumanMessage(route.message)
    /\ IsComposite(llm.messages[3])
    /\ db.messages[Len(db.messages)].role = "assistant"

(***************************************************************************)
(* The upload route (src/src/api/routes.py).  A request is handled from    *)
(* its first line to its last without interleaving.                        *)
(***************************************************************************)
\* texts, embeddings and metadata_list (lines 98-109) of a file that
\* process_document cut into n chunks; every embedding has the width of
\* the one embedding model.
UploadBatch(n) ==
    [vectors   |-> [j \in 1..n |-> QueryEmbedding],
     documents |-> [j \in 1..n |-> "a"],
     metadata  |-> Given(ChunkMetadata(n))]

\* Where a request fails other than in add and save: reading or chunking
\* the file (line 96), embedding (line 99), or the database block (lines
\* 114-132), whose exception get_db answers with a rollback.
UploadFaults == {"none", "extract", "embed", "db"}

\* upload_document, lines 86-145.  Every exception ends the request with
\* status 500 and undoes nothing of what the earlier lines did.
Upload(n, fault, save_fault) ==
    LET b == UploadBatch(n)
        r == AddResult(b.vectors, b.documents, b.metadata)
        early == fault \in {"extract", "embed"}
        st == [vectors |-> r.vectors, documents |-> r.documents,
               metadata |-> r.metadata]
    IN  /\ route.pc = "idle"
        /\ IF early \/ r.raised
           THEN UNCHANGED <<vectors, documents, metadata, disk, db>>
           ELSE /\ vectors' = r.vectors
                /\ documents' = r.documents
                /\ metadata' = r.metadata
                /\ disk' = SaveDiskOf(disk, st, save_fault)
                /\ db' = IF fault = "db" THEN db
                         ELSE [db EXCEPT !.documents =
                                  Append(@, [filename |-> "f", chunk_count |-> n])]
        /\ last' = [op |-> "upload",
                    raised |-> early \/ r.raised \/ fault = "db",
                    arg |-> [chunks |-> n, fault |-> fault]]
        /\ results' = <<>>
        /\ UNCHANGED <<faults, route>>
        /\ UNCHANGED <<chunkVars, agentVars, threads>>

(***************************************************************************)
(* UploadSpec: upload requests one after the other, from the empty store   *)
(* and no document rows; each request may fail at any of its steps.        *)
(***************************************************************************)
UploadAny ==
    \E n \in 0..MaxBatch, fault \in UploadFaults, save_fault \in WriteFaults :
        /\ Len(documents) + n <= MaxDocs
        /\ Len(db.documents) < MaxUploads
        /\ Upload(n, fault, save_fault)

UploadSpec == MemInit /\ [][UploadAny]_vars

\* The sum of chunk_count over the committed document rows.
CommittedChunks == SumSeq([i \in 1..Len(db.documents) |-> db.documents[i].chunk_count])

\* C29: Upload keeps the store and the document rows in step.  From the
\* empty store and no document rows, after any sequence of upload requests
\* each of which may fail at any step (text extraction, embedding, store
\* add, save, database write), the vector store holds as many entries as
\* the committed document rows count chunks.
C29_UploadInStep == Len(documents) = CommittedChunks

====
